---- MODULE Spec2Model ----
(***************************************************************************)
(* A model of the Utopia Naming System resolver (src/UNS-Resolver.js):     *)
(* the address parser, the ordered registry chain, the mapping of a        *)
(* network record to a URL and the TTL cache.  A resolve call is split at  *)
(* its awaits; between its steps the clock may advance and clearCache may  *)
(* run.  Every action takes the caller's slot as a parameter and Init      *)
(* gives one slot to each of Callers, who await each call before making    *)
(* the next; InitConcurrent gives the resolver to callers who do not.      *)
(* SpecReplies and SpecScheduled add the fairness of backends that always  *)
(* answer and of backends that may never answer.  parseAddress,            *)
(* directResolve and resolveResource are also run on their own, over       *)
(* bounded sets of arguments.  The module also holds the UT-IP encoder     *)
(* (src/UT-IP-Encoder.js), resolveWithUTIP, and the service worker of the  *)
(* browser extension (src/browser-extension/background.js) with its own    *)
(* resolver, statistics, cache cleanup and popup messages; the commands of *)
(* the command-line tool (src/unnamed/part_001) over the stateless mock    *)
(* registry; the registry list of the options page (src/unnamed/part_000); *)
(* and the export and import of the encoder's configuration.               *)
(*                                                                         *)
(* Strings are sequences of one-character strings, so that lowercasing,   *)
(* the address regex and the URL concatenation are computed as the code    *)
(* computes them.  A base URL taken from a record is a single token.       *)
(***************************************************************************)
EXTENDS Integers, Sequences, FiniteSets, TLC

(***************************************************************************)
(* Characters.                                                             *)
(***************************************************************************)

\* The lowercase and uppercase ASCII letters the model's addresses use, in
\* matching order.
LowerLetters ==
  <<"a", "b", "c", "d", "e", "i", "k", "l", "m", "n", "o", "p", "t", "u", "w", "x", "z">>

UpperLetters ==
  <<"A", "B", "C", "D", "E", "I", "K", "L", "M", "N", "O", "P", "T", "U", "W", "X", "Z">>

Digits == {"0", "1"}

\* U+212A KELVIN SIGN: a non-ASCII letter whose Unicode lowercase mapping is
\* the ASCII letter k.
Kelvin == "KELVIN"

\* The line terminators, which the regex dot does not match.
LineTerminators == {"NEWLINE"}

IsLower(ch) == \E i \in DOMAIN LowerLetters : LowerLetters[i] = ch

IsUpper(ch) == \E i \in DOMAIN UpperLetters : UpperLetters[i] = ch

\* String.prototype.toLowerCase on one character (Unicode case mapping).
LowerChar(ch) ==
  IF IsUpper(ch)
  THEN LowerLetters[CHOOSE i \in DOMAIN UpperLetters : UpperLetters[i] = ch]
  ELSE IF ch = Kelvin THEN "k" ELSE ch

\* String.prototype.toLowerCase.
ToLowerCase(s) == [i \in DOMAIN s |-> LowerChar(s[i])]

\* The character class [a-z0-9\-] under the i flag without the u flag:
\* ASCII letters of either case, digits and the hyphen.
IsNetworkChar(ch) == IsLower(ch) \/ IsUpper(ch) \/ ch \in Digits \/ ch = "-"

\* A literal lowercase letter of the regex under the i flag.
MatchesLiteral(ch, lit) == ch = lit \/ (IsUpper(ch) /\ LowerChar(ch) = lit)

(***************************************************************************)
(* String helpers.                                                         *)
(***************************************************************************)

\* String.prototype.indexOf for one character, 1-based; 0 when absent (the
\* code's -1).
IndexOf(s, ch) ==
  IF \E i \in DOMAIN s : s[i] = ch
  THEN CHOOSE i \in DOMAIN s : s[i] = ch /\ \A j \in 1..(i - 1) : s[j] # ch
  ELSE 0

\* s.substring(i - 1): the text from position i (1-based) to the end.
From(s, i) == SubSeq(s, i, Len(s))

\* s.substring(0, i - 1): the text before position i (1-based).
Before(s, i) == SubSeq(s, 1, i - 1)

StartsWith(s, ch) == Len(s) >= 1 /\ s[1] = ch

EndsWith(s, ch) == Len(s) >= 1 /\ s[Len(s)] = ch

(***************************************************************************)
(* parsePath and parseAddress.                                             *)
(***************************************************************************)

\* The code's null subdomain.  A present subdomain starts with '.', so it
\* is never empty, and the code only tests the subdomain for truthiness.
NullSubdomain == <<>>

MinNetworkLength == 3

MaxNetworkLength == 63

\* parsePath that lowercases the subdomain and the resourcePath.
parsePathLowercases(path) ==
  LET fragmentIndex == IndexOf(path, "#")
      fragment == IF fragmentIndex # 0 THEN From(path, fragmentIndex + 1) ELSE <<>>
      path1 == IF fragmentIndex # 0 THEN Before(path, fragmentIndex) ELSE path
      queryIndex == IndexOf(path1, "?")
      query == IF queryIndex # 0 THEN From(path1, queryIndex + 1) ELSE <<>>
      path2 == ToLowerCase(IF queryIndex # 0 THEN Before(path1, queryIndex) ELSE path1)
      slashIndex == IndexOf(path2, "/")
  IN  IF StartsWith(path2, ".")
      THEN IF slashIndex = 0
           THEN [subdomain |-> path2, resourcePath |-> <<>>,
                 query |-> query, fragment |-> fragment]
           ELSE [subdomain |-> Before(path2, slashIndex),
                 resourcePath |-> From(path2, slashIndex),
                 query |-> query, fragment |-> fragment]
      ELSE [subdomain |-> NullSubdomain,
            resourcePath |-> IF StartsWith(path2, "/") THEN path2 ELSE <<"/">> \o path2,
            query |-> query, fragment |-> fragment]

\* parsePath that splits off the query before the fragment.
parsePathQueryFirst(path) ==
  LET queryIndex == IndexOf(path, "?")
      query0 == IF queryIndex # 0 THEN From(path, queryIndex + 1) ELSE <<>>
      path1 == IF queryIndex # 0 THEN Before(path, queryIndex) ELSE path
      fragmentIndex == IndexOf(path1, "#")
      fragment == IF fragmentIndex # 0 THEN From(path1, fragmentIndex + 1) ELSE <<>>
      path2 == IF fragmentIndex # 0 THEN Before(path1, fragmentIndex) ELSE path1
      slashIndex == IndexOf(path2, "/")
  IN  IF StartsWith(path2, ".")
      THEN IF slashIndex = 0
           THEN [subdomain |-> path2, resourcePath |-> <<>>,
                 query |-> query0, fragment |-> fragment]
           ELSE [subdomain |-> Before(path2, slashIndex),
                 resourcePath |-> From(path2, slashIndex),
                 query |-> query0, fragment |-> fragment]
      ELSE [subdomain |-> NullSubdomain,
            resourcePath |-> IF StartsWith(path2, "/") THEN path2 ELSE <<"/">> \o path2,
            query |-> query0, fragment |-> fragment]

\* parsePath that leaves the '/' out of the resourcePath after a subdomain.
parsePathDropsSlash(path) ==
  LET fragmentIndex == IndexOf(path, "#")
      fragment == IF fragmentIndex # 0 THEN From(path, fragmentIndex + 1) ELSE <<>>
      path1 == IF fragmentIndex # 0 THEN Before(path, fragmentIndex) ELSE path
      queryIndex == IndexOf(path1, "?")
      query == IF queryIndex # 0 THEN From(path1, queryIndex + 1) ELSE <<>>
      path2 == IF queryIndex # 0 THEN Before(path1, queryIndex) ELSE path1
      slashIndex == IndexOf(path2, "/")
  IN  IF StartsWith(path2, ".")
      THEN IF slashIndex = 0
           THEN [subdomain |-> path2, resourcePath |-> <<>>,
                 query |-> query, fragment |-> fragment]
           ELSE [subdomain |-> Before(path2, slashIndex),
                 resourcePath |-> From(path2, slashIndex + 1),
                 query |-> query, fragment |-> fragment]
      ELSE [subdomain |-> NullSubdomain,
            resourcePath |-> IF StartsWith(path2, "/") THEN path2 ELSE <<"/">> \o path2,
            query |-> query, fragment |-> fragment]

parsePath(path) ==
  LET fragmentIndex == IndexOf(path, "#")
      fragment == IF fragmentIndex # 0 THEN From(path, fragmentIndex + 1) ELSE <<>>
      path1 == IF fragmentIndex # 0 THEN Before(path, fragmentIndex) ELSE path
      queryIndex == IndexOf(path1, "?")
      query == IF queryIndex # 0 THEN From(path1, queryIndex + 1) ELSE <<>>
      path2 == IF queryIndex # 0 THEN Before(path1, queryIndex) ELSE path1
      slashIndex == IndexOf(path2, "/")
  IN  IF StartsWith(path2, ".")
      THEN IF slashIndex = 0
           THEN [subdomain |-> path2, resourcePath |-> <<>>,
                 query |-> query, fragment |-> fragment]
           ELSE [subdomain |-> Before(path2, slashIndex),
                 resourcePath |-> From(path2, slashIndex),
                 query |-> query, fragment |-> fragment]
      ELSE [subdomain |-> NullSubdomain,
            resourcePath |-> IF StartsWith(path2, "/") THEN path2 ELSE <<"/">> \o path2,
            query |-> query, fragment |-> fragment]

\* The literal prefix of the regex, utopia\. , lowercase.
UtopiaPrefix == <<"u", "t", "o", "p", "i", "a">>

\* The number of leading characters of s from position i on that are in
\* the network character class (the greedy [a-z0-9\-]+).
RECURSIVE NetworkRun(_, _)
NetworkRun(s, i) ==
  IF i <= Len(s) /\ IsNetworkChar(s[i]) THEN 1 + NetworkRun(s, i + 1) ELSE 0

\* address.match(/^utopia\.([a-z0-9\-]+)\/\/(.*)$/i): whether it matches,
\* and the two groups.
RegexMatch(address) ==
  LET n == NetworkRun(address, 8)
      prefixOk == /\ Len(address) >= 7
                  /\ \A i \in 1..6 : MatchesLiteral(address[i], UtopiaPrefix[i])
                  /\ address[7] = "."
      slashesOk == /\ n >= 1
                   /\ Len(address) >= 8 + n + 1
                   /\ address[8 + n] = "/"
                   /\ address[8 + n + 1] = "/"
      path == From(address, 8 + n + 2)
      pathOk == \A i \in DOMAIN path : path[i] \notin LineTerminators
  IN  IF prefixOk /\ slashesOk /\ pathOk
      THEN [match |-> TRUE, network |-> SubSeq(address, 8, 8 + n - 1), path |-> path]
      ELSE [match |-> FALSE, network |-> <<>>, path |-> <<>>]

\* The descriptor of a failed parse: ok is FALSE and error is what is thrown,
\* new Error(`${message}: ${subject}`).
ParseError(message, subject) ==
  [ok |-> FALSE, error |-> [message |-> message, subject |-> subject], network |-> <<>>, path |-> <<>>,
   subdomain |-> NullSubdomain, resourcePath |-> <<>>, query |-> <<>>, fragment |-> <<>>]

\* parseAddress without the test for a hyphen at either end of the network.
parseAddressNoFormatCheck(address) ==
  LET m == RegexMatch(address)
      pathParts == parsePath(m.path)
  IN  IF ~m.match THEN ParseError("Invalid UNS address format", address)
      ELSE IF Len(m.network) < MinNetworkLength \/ Len(m.network) > MaxNetworkLength
      THEN ParseError("Invalid network name length", m.network)
      ELSE [ok |-> TRUE, error |-> [message |-> "", subject |-> <<>>], network |-> ToLowerCase(m.network), path |-> m.path,
            subdomain |-> pathParts.subdomain, resourcePath |-> pathParts.resourcePath,
            query |-> pathParts.query, fragment |-> pathParts.fragment]

parseAddress(address) ==
  LET m == RegexMatch(address)
      pathParts == parsePath(m.path)
  IN  IF ~m.match THEN ParseError("Invalid UNS address format", address)
      ELSE IF Len(m.network) < MinNetworkLength \/ Len(m.network) > MaxNetworkLength
      THEN ParseError("Invalid network name length", m.network)
      ELSE IF StartsWith(m.network, "-") \/ EndsWith(m.network, "-")
      THEN ParseError("Invalid network name format", m.network)
      ELSE [ok |-> TRUE, error |-> [message |-> "", subject |-> <<>>], network |-> ToLowerCase(m.network), path |-> m.path,
            subdomain |-> pathParts.subdomain, resourcePath |-> pathParts.resourcePath,
            query |-> pathParts.query, fragment |-> pathParts.fragment]

(***************************************************************************)
(* The state: the fields of the resolver, the calls in flight, and the     *)
(* statistics and request handlers of the browser extension.               *)
(***************************************************************************)

VARIABLES
  registries,  \* this.registries, in priority order, with the records they hold
  cacheTTL,    \* this.cacheTTL * 1000, in clock ticks
  utipEnabled, \* this.utipEnabled
  cache,       \* this.cache: cacheKey -> [url, timestamp]
  now,         \* Date.now()
  calls,       \* the resolve calls in flight, and what each has done so far
  result,      \* the call that has just settled, as its caller receives it
  prev,        \* the last successful resolve: its address, URL and entry's timestamp
  cleared,     \* clearCache has run and no resolve call has started since
  utipCalls,   \* the resolveWithUTIP calls awaiting their resolve
  stats,       \* the extension's stats
  requests,    \* the extension's handlers in flight
  input,       \* the arguments of the function under test
  output       \* its result

vars ==
  <<registries, cacheTTL, utipEnabled, cache, now, calls, result, prev, cleared,
    utipCalls, stats, requests, input, output>>

(***************************************************************************)
(* Network records and registries.                                         *)
(***************************************************************************)

\* What a reply without a url field yields: result.url is undefined.
Undefined == <<"undefined">>

\* A lookup that finds nothing returns null.
NoRecord == [absent |-> TRUE]

\* networkInfo.subdomains[subdomain]; a missing key (falsy) is the empty string.
SubdomainURL(networkInfo, subdomain) ==
  IF subdomain \in DOMAIN networkInfo.subdomains
  THEN networkInfo.subdomains[subdomain]
  ELSE <<>>

\* resolverURL.startsWith('http'); a resolver URL is its scheme token
\* followed by the rest.
StartsWithHttp(resolverURL) == resolverURL[1] \in {"http", "https"}

\* resolverURL.startsWith('ipfs://').
StartsWithIpfs(resolverURL) == resolverURL[1] = "ipfs"

MockResolver == <<"mock", "://direct-resolution">>

\* The first registry's table (the shape of DHTRegistry's mockData).
RegistryOne ==
  [network \in {<<"a", "k", "c">>, <<"w", "w", "w">>} |->
     IF network = <<"a", "k", "c">>
     THEN [resolvers |-> <<MockResolver>>,
           subdomains |-> [sd \in {<<".", "b">>} |-> <<"https://one.akc/b">>],
           defaultURL |-> <<>>]
     ELSE [resolvers |-> <<<<"ipfs", "://www">>, <<"https", "://r1.www">>,
                           <<"http", "://r2.www">>>>,
           subdomains |-> [sd \in {<<".", "b">>} |-> <<"https://one.www/b">>],
           defaultURL |-> <<>>]]

\* The second registry's table: another record for akc, and the only
\* record for bob, which has a defaultURL.
RegistryTwo ==
  [network \in {<<"a", "k", "c">>, <<"b", "o", "b">>} |->
     IF network = <<"a", "k", "c">>
     THEN [resolvers |-> <<MockResolver>>,
           subdomains |-> [sd \in {<<".", "b">>} |-> <<"https://two.akc/b">>],
           defaultURL |-> <<>>]
     ELSE [resolvers |-> <<MockResolver>>,
           subdomains |-> [sd \in {<<".", "b">>} |-> <<"https://two.bob/b">>],
           defaultURL |-> <<"https://two.bob">>]]

\* The registries the constructor is given, in priority order.
InitialRegistries == <<RegistryOne, RegistryTwo>>

\* What registry i returns for a network when its lookup does not raise.
RegistryLookup(i, network) ==
  IF network \in DOMAIN registries[i] THEN registries[i][network] ELSE NoRecord

\* The TTL the constructor is given (options.cacheTTL * 1000), in clock ticks.
InitialCacheTTL == 2

(***************************************************************************)
(* directResolve and the resolver loop of resolveResource.                 *)
(***************************************************************************)

\* directResolve whose defaultURL fallback appends the resourcePath in place
\* of the full raw path.
directResolveDefaultResourcePath(networkInfo, parsed) ==
  LET baseURL == SubdomainURL(networkInfo, parsed.subdomain)
      withPath == IF parsed.resourcePath # <<>> /\ parsed.resourcePath # <<"/">>
                  THEN baseURL \o parsed.resourcePath ELSE baseURL
      withQuery == IF parsed.query # <<>>
                   THEN withPath \o <<"?">> \o parsed.query ELSE withPath
      withFragment == IF parsed.fragment # <<>>
                      THEN withQuery \o <<"#">> \o parsed.fragment ELSE withQuery
  IN  IF parsed.subdomain # NullSubdomain /\ baseURL # <<>>
      THEN [ok |-> TRUE, url |-> withFragment]
      ELSE IF networkInfo.defaultURL # <<>>
      THEN [ok |-> TRUE, url |-> networkInfo.defaultURL \o parsed.resourcePath]
      ELSE [ok |-> FALSE, url |-> <<>>]

\* directResolve that appends the resourcePath also when it is just '/'.
directResolveKeepsSlash(networkInfo, parsed) ==
  LET baseURL == SubdomainURL(networkInfo, parsed.subdomain)
      withPath == IF parsed.resourcePath # <<>>
                  THEN baseURL \o parsed.resourcePath ELSE baseURL
      withQuery == IF parsed.query # <<>>
                   THEN withPath \o <<"?">> \o parsed.query ELSE withPath
      withFragment == IF parsed.fragment # <<>>
                      THEN withQuery \o <<"#">> \o parsed.fragment ELSE withQuery
  IN  IF parsed.subdomain # NullSubdomain /\ baseURL # <<>>
      THEN [ok |-> TRUE, url |-> withFragment]
      ELSE IF networkInfo.defaultURL # <<>>
      THEN [ok |-> TRUE, url |-> networkInfo.defaultURL \o <<"/">> \o parsed.path]
      ELSE [ok |-> FALSE, url |-> <<>>]

\* The result of directResolve: ok with the URL, or the throw.
directResolve(networkInfo, parsed) ==
  LET baseURL == SubdomainURL(networkInfo, parsed.subdomain)
      withPath == IF parsed.resourcePath # <<>> /\ parsed.resourcePath # <<"/">>
                  THEN baseURL \o parsed.resourcePath ELSE baseURL
      withQuery == IF parsed.query # <<>>
                   THEN withPath \o <<"?">> \o parsed.query ELSE withPath
      withFragment == IF parsed.fragment # <<>>
                      THEN withQuery \o <<"#">> \o parsed.fragment ELSE withQuery
  IN  IF parsed.subdomain # NullSubdomain /\ baseURL # <<>>
      THEN [ok |-> TRUE, url |-> withFragment]
      ELSE IF networkInfo.defaultURL # <<>>
      THEN [ok |-> TRUE, url |-> networkInfo.defaultURL \o <<"/">> \o parsed.path]
      ELSE [ok |-> FALSE, url |-> <<>>]

\* The for loop of resolveResource from resolver i on, run until it
\* returns a URL, awaits an http resolver, or runs out of resolvers.
\* fetches is the list of resolver indices fetched so far.
RECURSIVE ResolverLoop(_, _, _)
ResolverLoop(networkInfo, parsed, i) ==
  IF i > Len(networkInfo.resolvers)
  THEN [kind |-> "throw", url |-> <<>>, index |-> i]
  ELSE IF StartsWithHttp(networkInfo.resolvers[i])
  THEN [kind |-> "await", url |-> <<>>, index |-> i]
  ELSE IF StartsWithIpfs(networkInfo.resolvers[i])
  THEN ResolverLoop(networkInfo, parsed, i + 1)
  ELSE LET direct == directResolve(networkInfo, parsed)
       IN  IF direct.ok
           THEN [kind |-> "return", url |-> direct.url, index |-> i]
           ELSE ResolverLoop(networkInfo, parsed, i + 1)

(***************************************************************************)
(* The addresses callers pass to resolve.                                  *)
(***************************************************************************)

LowerUtopia == <<"u", "t", "o", "p", "i", "a", ".">>

UpperUtopia == <<"U", "T", "O", "P", "I", "A", ".">>

\* utopia.akc//.b : mapped by both registries.
AddrPlain == LowerUtopia \o <<"a", "k", "c">> \o <<"/", "/", ".", "b">>

\* UTOPIA.AKC//.b : the same address in upper case.
AddrUpper == UpperUtopia \o <<"A", "K", "C">> \o <<"/", "/", ".", "b">>

\* utopia.a(KELVIN SIGN)c//.b : not an address, but its lowercase is AddrPlain.
AddrKelvin == LowerUtopia \o <<"a", Kelvin, "c">> \o <<"/", "/", ".", "b">>

\* utopia.ab//.b : the network is too short.
AddrShort == LowerUtopia \o <<"a", "b">> \o <<"/", "/", ".", "b">>

\* utopia.zzz//.b : no registry has the network.
AddrUnknown == LowerUtopia \o <<"z", "z", "z">> \o <<"/", "/", ".", "b">>

\* utopia.akc//.m : the record has no such subdomain and no defaultURL.
AddrMissing == LowerUtopia \o <<"a", "k", "c">> \o <<"/", "/", ".", "m">>

\* utopia.bob//d : only the second registry has bob; mapped by its defaultURL.
AddrDefault == LowerUtopia \o <<"b", "o", "b">> \o <<"/", "/", "d">>

\* utopia.www//.b : the record lists ipfs, https and http resolvers.
AddrRemote == LowerUtopia \o <<"w", "w", "w">> \o <<"/", "/", ".", "b">>

Addresses ==
  {AddrPlain, AddrUpper, AddrKelvin, AddrShort, AddrUnknown, AddrMissing,
   AddrDefault, AddrRemote}

(***************************************************************************)
(* The resolver's state and the calls in flight.                           *)
(***************************************************************************)

\* The last value of the clock.
MaxTime == 3

\* The callers of resolve; each awaits its call before it makes the next.
Callers == {1}

\* The url the reply of an http resolver carries in its url field.
RemoteURL == <<"https://remote.www/b">>

NoPrev == [address |-> <<>>, url |-> <<>>, timestamp |-> 0]

NoError == [message |-> "", subject |-> <<>>]

\* new Error(`${message}: ${subject}`).
Error(message, subject) == [message |-> message, subject |-> subject]

\* The messages of the errors parseAddress throws.
InvalidAddress ==
  {"Invalid UNS address format", "Invalid network name length", "Invalid network name format"}

\* The local parsed of a call that has not parsed its address.
NoDescriptor == [none |-> TRUE]

\* A call slot that holds no call.  The fields of a call: its position, its
\* argument, what it found in the cache when it started (startLive: a live
\* entry under its key, with startURL; startStale: an expired one; repeat:
\* the last successful resolve was of the same address, returned repeatURL
\* and its entry is younger than the TTL; afterClear: it is the first call
\* to start since clearCache ran), and what it has done: the
\* descriptor parseAddress returned (the local parsed), the number of
\* parseAddress calls, the registries looked up in order with
\* their replies, the record found, the resolvers fetched, whether it
\* returned from the cache, the number of cache writes, and how it ended.
IdleCall ==
  [pc |-> "idle", address |-> <<>>,
   startLive |-> FALSE, startURL |-> <<>>, startStale |-> FALSE,
   repeat |-> FALSE, repeatURL |-> <<>>, afterClear |-> FALSE,
   parsed |-> NoDescriptor, parses |-> 0, lookups |-> <<>>, replies |-> <<>>, networkInfo |-> NoRecord,
   resolverIndex |-> 0, fetches |-> <<>>, fromCache |-> FALSE, writes |-> 0,
   outcome |-> "none", url |-> <<>>, error |-> NoError]

NoResult == IdleCall

NoInput == [none |-> TRUE]

NoOutput == [none |-> TRUE]

\* A slot that holds no resolveWithUTIP call.
NoUTIPCall == [pc |-> "idle", address |-> <<>>, includeUTIP |-> FALSE]

NoUTIPCalls == [s \in Callers |-> NoUTIPCall]

\* The extension's stats object as the service worker creates it and as
\* resetStats replaces it, at time t.
ZeroStats(t) ==
  [totalResolutions |-> 0, successfulResolutions |-> 0, failedResolutions |-> 0,
   cacheHits |-> 0, lastReset |-> t]

\* The extension's handlers that can be in flight at once.
Handlers == {1, 2}

\* A handler slot that holds no handler.  The fields of a handler: its
\* position, what started it (an intercepted request or a resolve message),
\* the address it resolves with the descriptor parseAddress returned, the
\* registry it awaits, the registries it has fetched with their replies,
\* and what the resolver gave it.  A slot whose request listener has returned keeps the
\* settings the listener read and what it returned, until the next handler
\* takes the slot.
NoSettings == [none |-> TRUE]

IdleRequest ==
  [pc |-> "idle", kind |-> "none", address |-> <<>>, parsed |-> NoDescriptor,
   registryIndex |-> 0, fetches |-> <<>>, replies |-> <<>>, fromCache |-> FALSE,
   url |-> <<>>, error |-> NoError, settings |-> NoSettings, returned |-> "none"]

\* The slot of a request listener that has returned.
ReturnedRequest(request, returned) ==
  [IdleRequest EXCEPT !.settings = request.settings, !.returned = returned]

NoRequests == [h \in Handlers |-> IdleRequest]

\* CacheHit with the TTL not scaled to the clock's unit: entries expire early.
CacheHitUnscaled(c, cacheKey, t) ==
  cacheKey \in DOMAIN c /\ t - c[cacheKey].timestamp < cacheTTL \div 2

\* CacheHit with <= for <: an entry of age exactly the TTL is still served.
CacheHitInclusive(c, cacheKey, t) ==
  cacheKey \in DOMAIN c /\ t - c[cacheKey].timestamp <= cacheTTL

\* cached && Date.now() - cached.timestamp < this.cacheTTL * 1000.
CacheHit(c, cacheKey, t) ==
  cacheKey \in DOMAIN c /\ t - c[cacheKey].timestamp < cacheTTL

\* CacheSet that also puts the URL into every other entry of the cache.
CacheSetAllEntries(c, cacheKey, url, t) ==
  [k \in DOMAIN c \cup {cacheKey} |->
     [url |-> url, timestamp |-> IF k = cacheKey THEN t ELSE c[k].timestamp]]

\* CacheSet that stores no time of writing (timestamp 0).
CacheSetNoTimestamp(c, cacheKey, url, t) ==
  [k \in DOMAIN c \cup {cacheKey} |->
     IF k = cacheKey THEN [url |-> url, timestamp |-> 0] ELSE c[k]]

\* this.cache.set(cacheKey, {url, timestamp}).
CacheSet(c, cacheKey, url, t) ==
  [k \in DOMAIN c \cup {cacheKey} |->
     IF k = cacheKey THEN [url |-> url, timestamp |-> t] ELSE c[k]]

\* CacheKey without the lowercasing.
CacheKeyRaw(address) == address

\* const cacheKey = address.toLowerCase().
CacheKey(address) == ToLowerCase(address)

\* CacheAfterThrow that drops the entry under the failed call's key.
CacheAfterThrowEvicts(c, cacheKey) == [k \in DOMAIN c \ {cacheKey} |-> c[k]]

\* The catch block of resolve logs and rethrows: the cache after a call
\* that ends in an error.
CacheAfterThrow(c, cacheKey) == c

\* return url, as the caller sees the call.
Returned(call, url) ==
  [call EXCEPT !.pc = "done", !.outcome = "success", !.url = url, !.error = NoError]

\* Thrown that settles the call as a success.
ThrownAsReturned(call, error) ==
  [call EXCEPT !.pc = "done", !.outcome = "success", !.url = <<>>, !.error = NoError]

\* throw error, as the caller sees the call.
Thrown(call, error) ==
  [call EXCEPT !.pc = "done", !.outcome = "error", !.url = <<>>, !.error = error]

\* The age at time t of the entry under a key.
EntryAge(c, cacheKey, t) == t - c[cacheKey].timestamp

\* The call record of resolve(address) as it starts in the present state.
Started(address) ==
  LET cacheKey == ToLowerCase(address)
      present == cacheKey \in DOMAIN cache
      live == present /\ EntryAge(cache, cacheKey, now) < cacheTTL
      again == /\ prev # NoPrev
               /\ prev.address = address
               /\ now - prev.timestamp < cacheTTL
  IN  [IdleCall EXCEPT !.address = address,
                       !.startLive = live,
                       !.startURL = IF live THEN cache[cacheKey].url ELSE <<>>,
                       !.startStale = present /\ ~live,
                       !.repeat = again,
                       !.repeatURL = IF again THEN prev.url ELSE <<>>,
                       !.afterClear = cleared]

Init ==
  /\ registries = InitialRegistries
  /\ cacheTTL = InitialCacheTTL
  /\ utipEnabled = TRUE
  /\ cache = <<>>
  /\ now = 0
  /\ calls = [s \in Callers |-> IdleCall]
  /\ result = NoResult
  /\ prev = NoPrev
  /\ cleared = FALSE
  /\ utipCalls = NoUTIPCalls
  /\ stats = ZeroStats(0)
  /\ requests = NoRequests
  /\ input = NoInput
  /\ output = NoOutput

\* resolve(address) up to its first await: the cache check, parseAddress and
\* the call of the first registry's lookup.
StartResolve(s, address) ==
  LET cacheKey == CacheKey(address)
      parsed == parseAddress(address)
      started == Started(address)
  IN  /\ result = NoResult
      /\ calls[s].pc = "idle"
      /\ \A r \in DOMAIN calls : r < s => calls[r].pc # "idle"
      /\ IF CacheHit(cache, cacheKey, now)
         THEN /\ result' = Returned([started EXCEPT !.fromCache = TRUE], cache[cacheKey].url)
              /\ prev' = [address |-> address, url |-> cache[cacheKey].url,
                          timestamp |-> cache[cacheKey].timestamp]
              /\ UNCHANGED <<cache, calls>>
         ELSE IF ~parsed.ok
         THEN /\ result' = Thrown([started EXCEPT !.parses = 1], parsed.error)
              /\ cache' = CacheAfterThrow(cache, cacheKey)
              /\ UNCHANGED <<calls, prev>>
         ELSE /\ calls' = [calls EXCEPT ![s] =
                             [started EXCEPT !.pc = "lookup", !.parsed = parsed,
                                             !.parses = 1, !.lookups = <<1>>]]
              /\ UNCHANGED <<cache, result, prev>>
      /\ cleared' = FALSE
      /\ UNCHANGED <<now, input, output,
                     registries, cacheTTL, utipEnabled, stats, requests>>

\* A caller calls resolve(address).
Resolve(s, address) ==
  /\ StartResolve(s, address)
  /\ UNCHANGED utipCalls

\* AfterReply that asks every registry and returns what the last one gave.
AfterReplyUsesLast(i, raises, networkInfo) ==
  IF i < Len(registries) THEN "continue"
  ELSE IF ~raises /\ networkInfo # NoRecord THEN "return"
  ELSE "null"

\* AfterReply without the try/catch around the lookup.
AfterReplyPropagates(i, raises, networkInfo) ==
  IF raises THEN "throw"
  ELSE IF networkInfo # NoRecord THEN "return"
  ELSE IF i < Len(registries) THEN "continue"
  ELSE "null"

\* AfterReply that gives up after the first registry without a record.
AfterReplyNoFallback(i, raises, networkInfo) ==
  IF ~raises /\ networkInfo # NoRecord THEN "return" ELSE "null"

\* What lookupNetwork does with the reply of registry i: a record is
\* returned; null, or a raise (caught and logged), moves on to the next
\* registry; after the last registry null is returned.  "throw" would let
\* the registry's error out of lookupNetwork.
AfterReply(i, raises, networkInfo) ==
  IF ~raises /\ networkInfo # NoRecord THEN "return"
  ELSE IF i < Len(registries) THEN "continue"
  ELSE "null"

\* NextRegistry that stays at the registry that just replied.
NextRegistryRetries(i) == i

\* for (const registry of this.registries): the registry asked after
\* registry i.
NextRegistry(i) == i + 1

\* The lookup awaited in lookupNetwork settles: the registry returns its
\* record or null, or raises.  lookupNetwork goes on as AfterReply says;
\* resolve resumes with a record, throws when it gets null, and rethrows
\* what lookupNetwork throws.
LookupSettles(s, raises) ==
  LET call == calls[s]
      i == call.lookups[Len(call.lookups)]
      parsed == call.parsed
      networkInfo == IF raises THEN NoRecord ELSE RegistryLookup(i, parsed.network)
      reply == IF raises THEN "raised" ELSE IF networkInfo = NoRecord THEN "absent" ELSE "found"
      replied == [call EXCEPT !.replies = Append(@, reply)]
      after == AfterReply(i, raises, networkInfo)
  IN  /\ result = NoResult
      /\ call.pc = "lookup"
      /\ IF after = "return"
         THEN /\ calls' = [calls EXCEPT ![s] =
                             [replied EXCEPT !.pc = "mapping", !.networkInfo = networkInfo]]
              /\ UNCHANGED <<cache, result>>
         ELSE IF after = "continue"
         THEN /\ calls' = [calls EXCEPT ![s] = [replied EXCEPT !.lookups = Append(@, NextRegistry(i))]]
              /\ UNCHANGED <<cache, result>>
         ELSE /\ result' = Thrown(replied,
                                  IF after = "null"
                                  THEN Error("Network not found", parsed.network)
                                  ELSE Error("registry failure", parsed.network))
              /\ calls' = [calls EXCEPT ![s] = IdleCall]
              /\ cache' = CacheAfterThrow(cache, CacheKey(call.address))
      /\ UNCHANGED <<now, prev, cleared, input, output,
                     registries, cacheTTL, utipEnabled, utipCalls, stats, requests>>

\* for (const resolverURL of resolvers): the resolver tried after resolver i.
NextResolver(i) == i + 1

\* RecordAfterUse of an engine that takes the resolvers out of the record
\* as it tries them.
RecordAfterUseConsumes(networkInfo) == [networkInfo EXCEPT !.resolvers = <<>>]

\* The record after resolveResource and directResolve have worked on it:
\* they read its resolvers (filter builds a new array), its subdomains and
\* its defaultURL, and assign to none of them.
RecordAfterUse(networkInfo) == networkInfo

\* this.registries after the engine has worked on the record of a call: the
\* record is the registry's own object, which lookup hands over by
\* reference.
RegistriesAfterUse(call) ==
  LET i == call.lookups[Len(call.lookups)]
  IN  [registries EXCEPT ![i][call.parsed.network] = RecordAfterUse(@)]

\* What the resolver loop does from resolver i on, as a step of call s.
ContinueResolvers(s, call, i) ==
  LET parsed == call.parsed
      loop == ResolverLoop(call.networkInfo, parsed, i)
  IN  IF loop.kind = "return"
      THEN /\ calls' = [calls EXCEPT ![s] =
                          [call EXCEPT !.pc = "cachewrite", !.url = loop.url]]
           /\ UNCHANGED <<cache, result>>
      ELSE IF loop.kind = "await"
      THEN /\ calls' = [calls EXCEPT ![s] =
                          [call EXCEPT !.pc = "endpoint", !.resolverIndex = loop.index,
                                       !.fetches = Append(@, loop.index)]]
           /\ UNCHANGED <<cache, result>>
      ELSE /\ result' = Thrown(call, Error("All resolvers failed for network", parsed.network))
           /\ calls' = [calls EXCEPT ![s] = IdleCall]
           /\ cache' = CacheAfterThrow(cache, CacheKey(call.address))

\* resolve resumes with the record and calls resolveResource, which runs
\* its resolvers up to the first await.
Mapping(s) ==
  /\ result = NoResult
  /\ calls[s].pc = "mapping"
  /\ ContinueResolvers(s, calls[s], 1)
  /\ registries' = RegistriesAfterUse(calls[s])
  /\ UNCHANGED <<now, prev, cleared, input, output,
                 cacheTTL, utipEnabled, utipCalls, stats, requests>>

\* The replies an http resolver can give: the fetch rejects, the status is
\* not ok, the body has a url field, or the body has none.
EndpointReplies == {"rejects", "not ok", "url", "no url"}

\* AfterFetch without the try/catch around the resolver: a rejected fetch
\* leaves resolveResource.
AfterFetchPropagates(reply) ==
  IF reply \in {"url", "no url"} THEN "return"
  ELSE IF reply = "rejects" THEN "throw"
  ELSE "continue"

\* What resolveResource does with the reply of an http resolver: httpResolve
\* returns result.url of an ok reply, with or without the field; a rejected
\* fetch and the error httpResolve throws for a reply that is not ok are
\* caught and logged, and the loop goes on.  "throw" would let the error
\* out of resolveResource.
AfterFetch(reply) ==
  IF reply \in {"url", "no url"} THEN "return" ELSE "continue"

\* The fetch awaited in httpResolve settles.
EndpointSettles(s, reply) ==
  LET call == calls[s]
      after == AfterFetch(reply)
  IN  /\ result = NoResult
      /\ call.pc = "endpoint"
      /\ IF after = "throw"
         THEN /\ result' = Thrown(call, Error("endpoint failure", call.parsed.network))
              /\ calls' = [calls EXCEPT ![s] = IdleCall]
              /\ cache' = CacheAfterThrow(cache, CacheKey(call.address))
         ELSE IF after = "return"
         THEN /\ calls' = [calls EXCEPT ![s] =
                             [call EXCEPT !.pc = "cachewrite",
                                          !.url = IF reply = "url" THEN RemoteURL ELSE Undefined]]
              /\ UNCHANGED <<cache, result>>
         ELSE ContinueResolvers(s, call, NextResolver(call.resolverIndex))
      /\ registries' = RegistriesAfterUse(call)
      /\ UNCHANGED <<now, prev, cleared, input, output,
                     cacheTTL, utipEnabled, utipCalls, stats, requests>>

\* resolve resumes with the resolved URL, writes the cache and returns.
CacheWrite(s) ==
  LET call == calls[s]
  IN  /\ result = NoResult
      /\ call.pc = "cachewrite"
      /\ cache' = CacheSet(cache, CacheKey(call.address), call.url, now)
      /\ result' = [Returned(call, call.url) EXCEPT !.writes = 1]
      /\ calls' = [calls EXCEPT ![s] = IdleCall]
      /\ prev' = [address |-> call.address, url |-> call.url, timestamp |-> now]
      /\ UNCHANGED <<now, cleared, input, output,
                     registries, cacheTTL, utipEnabled, utipCalls, stats, requests>>

\* The caller receives the result of the call that has just settled.
Deliver ==
  /\ result # NoResult
  /\ result' = NoResult
  /\ UNCHANGED <<cache, now, calls, prev, cleared, input, output,
                 registries, cacheTTL, utipEnabled, utipCalls, stats, requests>>

\* clearCache().
ClearCache ==
  /\ result = NoResult
  /\ cache' = <<>>
  /\ prev' = NoPrev
  /\ cleared' = TRUE
  /\ UNCHANGED <<now, calls, result, input, output,
                 registries, cacheTTL, utipEnabled, utipCalls, stats, requests>>

\* The clock advances.
Tick ==
  /\ result = NoResult
  /\ now < MaxTime
  /\ now' = now + 1
  /\ UNCHANGED <<cache, calls, result, prev, cleared, input, output,
                 registries, cacheTTL, utipEnabled, utipCalls, stats, requests>>

Next ==
  \/ \E s \in DOMAIN calls, address \in Addresses : Resolve(s, address)
  \/ \E s \in DOMAIN calls, raises \in BOOLEAN : LookupSettles(s, raises)
  \/ \E s \in DOMAIN calls : Mapping(s)
  \/ \E s \in DOMAIN calls, reply \in EndpointReplies : EndpointSettles(s, reply)
  \/ \E s \in DOMAIN calls : CacheWrite(s)
  \/ Deliver
  \/ ClearCache
  \/ Tick

Spec == Init /\ [][Next]_vars

\* The resolver with registries and endpoints that always answer: every
\* awaited lookup and fetch eventually returns or raises, and the event
\* loop runs the continuation of every call whose await has settled.
SpecReplies ==
  /\ Init /\ [][Next]_vars
  /\ \A s \in Callers :
       /\ WF_vars(\E raises \in BOOLEAN : LookupSettles(s, raises))
       /\ WF_vars(Mapping(s))
       /\ WF_vars(\E reply \in EndpointReplies : EndpointSettles(s, reply))
       /\ WF_vars(CacheWrite(s))

\* The resolver with registries and endpoints that may never answer: only
\* the continuations the event loop runs are sure to be taken.  The code
\* sets no timer and passes no timeout or abort signal to lookup or fetch.
SpecScheduled ==
  /\ Init /\ [][Next]_vars
  /\ WF_vars(Deliver)
  /\ \A s \in Callers : WF_vars(Mapping(s)) /\ WF_vars(CacheWrite(s))

(***************************************************************************)
(* The resolver shared by callers that do not wait for one another: their  *)
(* calls interleave at the awaits on the registry lookup and the endpoint   *)
(* call.  There is no lock: the cache is the one Map of the resolver.      *)
(* The calls overlap within one tick of the clock, so no entry expires     *)
(* between their steps; entries go away by clearCache only.                *)
(***************************************************************************)

ConcurrentCallers == {1, 2}

\* Two spellings of one address (one cache key) and an address of another
\* network, resolved by http endpoints.
ConcurrentAddresses == {AddrPlain, AddrUpper, AddrRemote}

InitConcurrent ==
  /\ registries = InitialRegistries
  /\ cacheTTL = InitialCacheTTL
  /\ utipEnabled = TRUE
  /\ cache = <<>>
  /\ now = 0
  /\ calls = [s \in ConcurrentCallers |-> IdleCall]
  /\ result = NoResult
  /\ prev = NoPrev
  /\ cleared = FALSE
  /\ utipCalls = NoUTIPCalls
  /\ stats = ZeroStats(0)
  /\ requests = NoRequests
  /\ input = NoInput
  /\ output = NoOutput

NextConcurrent ==
  \/ \E s \in DOMAIN calls, address \in ConcurrentAddresses : Resolve(s, address)
  \/ \E s \in DOMAIN calls, raises \in BOOLEAN : LookupSettles(s, raises)
  \/ \E s \in DOMAIN calls : Mapping(s)
  \/ \E s \in DOMAIN calls, reply \in EndpointReplies : EndpointSettles(s, reply)
  \/ \E s \in DOMAIN calls : CacheWrite(s)
  \/ Deliver
  \/ ClearCache

SpecConcurrent == InitConcurrent /\ [][NextConcurrent]_vars

(***************************************************************************)
(* directResolve on its own: every record of the registries against every  *)
(* descriptor parsePath yields for a path built from the parts below.      *)
(***************************************************************************)

DirectSubdomains == {<<>>, <<".", "b">>, <<".", "B">>, <<".", "m">>}

DirectResourcePaths == {<<>>, <<"/">>, <<"/", "p">>, <<"/", "p", "/">>}

DirectQueries == {<<>>, <<"?">>, <<"?", "x">>}

DirectFragments == {<<>>, <<"#">>, <<"#", "t">>}

DirectPaths ==
  {sd \o rp \o q \o f : sd \in DirectSubdomains, rp \in DirectResourcePaths,
                        q \in DirectQueries, f \in DirectFragments}

\* The records the registries hold.
Records ==
  {InitialRegistries[i][network] :
     i \in DOMAIN InitialRegistries, network \in {<<"a", "k", "c">>}}
  \cup {RegistryOne[<<"w", "w", "w">>], RegistryTwo[<<"b", "o", "b">>]}

\* The descriptor parseAddress returns for utopia.akc//<path>.
DescriptorOf(path) == parseAddress(LowerUtopia \o <<"a", "k", "c", "/", "/">> \o path)

InitDirect ==
  /\ registries = InitialRegistries
  /\ cacheTTL = InitialCacheTTL
  /\ utipEnabled = TRUE
  /\ cache = <<>>
  /\ now = 0
  /\ calls = [s \in Callers |-> IdleCall]
  /\ result = NoResult
  /\ prev = NoPrev
  /\ cleared = FALSE
  /\ utipCalls = NoUTIPCalls
  /\ stats = ZeroStats(0)
  /\ requests = NoRequests
  /\ input \in {[networkInfo |-> r, parsed |-> DescriptorOf(path)] :
                  r \in Records, path \in DirectPaths}
  /\ output = NoOutput

\* this.directResolve(networkInfo, parsed).
ApplyDirectResolve ==
  /\ output = NoOutput
  /\ output' = directResolve(input.networkInfo, input.parsed)
  /\ UNCHANGED <<cache, now, calls, result, prev, cleared, input,
                 registries, cacheTTL, utipEnabled, utipCalls, stats, requests>>

NextDirect == ApplyDirectResolve

SpecDirect == InitDirect /\ [][NextDirect]_vars

(***************************************************************************)
(* resolveResource on its own, for the records that list no http or https  *)
(* resolver: the loop never awaits a fetch, so it runs to its return or    *)
(* to its final throw in one step.                                         *)
(***************************************************************************)

IpfsResolver == <<"ipfs", "://resolver">>

\* A resolver URL of a scheme the code does not name.
OtherResolver == <<"ftp", "://resolver">>

\* networkInfo.resolvers of the records: none (an empty array, or undefined,
\* which filter(Boolean) drops), one, or two resolvers.
ResourceResolvers ==
  {<<>>, <<MockResolver>>, <<OtherResolver>>, <<IpfsResolver>>,
   <<IpfsResolver, MockResolver>>, <<MockResolver, IpfsResolver>>}

ResourceRecords ==
  {[resolvers |-> r,
    subdomains |-> [sd \in {<<".", "b">>} |-> <<"https://one.akc/b">>],
    defaultURL |-> d] :
     r \in ResourceResolvers, d \in {<<>>, <<"https://two.bob">>}}

InitResource ==
  /\ registries = InitialRegistries
  /\ cacheTTL = InitialCacheTTL
  /\ utipEnabled = TRUE
  /\ cache = <<>>
  /\ now = 0
  /\ calls = [s \in Callers |-> IdleCall]
  /\ result = NoResult
  /\ prev = NoPrev
  /\ cleared = FALSE
  /\ utipCalls = NoUTIPCalls
  /\ stats = ZeroStats(0)
  /\ requests = NoRequests
  /\ input \in {[networkInfo |-> r, parsed |-> DescriptorOf(path)] :
                  r \in ResourceRecords, path \in DirectPaths}
  /\ output = NoOutput

\* await this.resolveResource(networkInfo, parsed).
ApplyResolveResource ==
  /\ output = NoOutput
  /\ output' = ResolverLoop(input.networkInfo, input.parsed, 1)
  /\ UNCHANGED <<cache, now, calls, result, prev, cleared, input,
                 registries, cacheTTL, utipEnabled, utipCalls, stats, requests>>

NextResource == ApplyResolveResource

SpecResource == InitResource /\ [][NextResource]_vars

(***************************************************************************)
(* parseAddress on its own: every string put together from a prefix, a    *)
(* network, a separator and a path of the sets below.                      *)
(***************************************************************************)

\* The character ch, n times.
Repeat(ch, n) == [i \in 1..n |-> ch]

ParsePrefixes ==
  {LowerUtopia, UpperUtopia, <<"U", "t", "o", "p", "I", "a", ".">>,
   <<"u", "t", "o", "p", "i", "a">>, <<"x">> \o LowerUtopia,
   <<"u", "t", "o", "p", "i", "a", "-">>}

\* Networks of the lengths around the two limits, with hyphens inside and
\* at the ends, and with characters outside the class.
ParseNetworks ==
  {<<>>, <<"a">>, <<"a", "b">>, <<"a", "b", "c">>, <<"A", "-", "0">>, <<"1", "0", "1">>,
   <<"-">>, <<"-", "-", "-">>, <<"-", "a", "b">>, <<"a", "b", "-">>, <<"a", "-">>,
   <<"a", "_", "c">>, <<"a", ".", "c">>, <<"a", Kelvin, "c">>,
   Repeat("a", MaxNetworkLength - 1) \o <<"-">>,
   Repeat("a", MaxNetworkLength), Repeat("a", MaxNetworkLength + 1),
   Repeat("a", MaxNetworkLength) \o <<"-">>}

ParseSeparators == {<<"/", "/">>, <<"/">>, <<>>, <<"/", "x", "/">>}

ParsePaths ==
  {<<>>, <<".", "b">>, <<"x">>, <<"/", "/">>, <<".", "B", "/", "p", "?", "x", "#", "t">>,
   <<"x", "NEWLINE", "b">>,
   <<"/", "p">>, <<".", "b", "/">>, <<".", "b", "/", "P", "/", "x">>,
   <<".", "b", "?">>, <<".", "b", "#">>, <<".", "b", "?", "#", "t">>,
   <<"x", "#", "t", "?", "x">>, <<".", "b", "?", "x", "?", "x">>,
   <<".", "b", "#", "t", "#", "t">>, <<"?", "x">>, <<"#", "t">>,
   <<"X", "/", ".", "b">>}

ParseInputs ==
  {pre \o net \o sep \o path :
     pre \in ParsePrefixes, net \in ParseNetworks,
     sep \in ParseSeparators, path \in ParsePaths}

InitParse ==
  /\ registries = InitialRegistries
  /\ cacheTTL = InitialCacheTTL
  /\ utipEnabled = TRUE
  /\ cache = <<>>
  /\ now = 0
  /\ calls = [s \in Callers |-> IdleCall]
  /\ result = NoResult
  /\ prev = NoPrev
  /\ cleared = FALSE
  /\ utipCalls = NoUTIPCalls
  /\ stats = ZeroStats(0)
  /\ requests = NoRequests
  /\ input \in {[address |-> a] : a \in ParseInputs}
  /\ output = NoOutput

\* this.parseAddress(address).
ApplyParseAddress ==
  /\ output = NoOutput
  /\ output' = parseAddress(input.address)
  /\ UNCHANGED <<cache, now, calls, result, prev, cleared, input,
                 registries, cacheTTL, utipEnabled, utipCalls, stats, requests>>

NextParse == ApplyParseAddress

SpecParse == InitParse /\ [][NextParse]_vars

(***************************************************************************)
(* The UT-IP encoder (src/UT-IP-Encoder.js).  A string of the encoder is a  *)
(* sequence of UTF-16 code units, so that the symbol substitution, the     *)
(* rotation and the XOR with the key are computed as the code computes     *)
(* them.                                                                   *)
(***************************************************************************)

\* The code unit of the digit d.
DigitCode(d) == 48 + d

\* The code unit of the period.
Period == 46

\* this.symbolMap in the order of Object.entries: the integer keys '0' to
\* '9' in ascending order, then '.' and ':' in insertion order.  Each entry
\* is a key and its symbol; '3' and '.' both have the symbol U+2310.
symbolMap ==
  <<<<DigitCode(0), 8865>>, <<DigitCode(1), 8864>>, <<DigitCode(2), 8863>>,
    <<DigitCode(3), 8976>>, <<DigitCode(4), 8862>>, <<DigitCode(5), 8859>>,
    <<DigitCode(6), 8860>>, <<DigitCode(7), 8861>>, <<DigitCode(8), 8858>>,
    <<DigitCode(9), 8857>>, <<Period, 8976>>, <<58, 9674>>>>

\* Object.values(this.symbolMap).
SymbolValues == [i \in DOMAIN symbolMap |-> symbolMap[i][2]]

\* symbols.indexOf(char), counted from 0; -1 when the character is no symbol.
SymbolIndexOf(char) ==
  IF \E i \in DOMAIN SymbolValues : SymbolValues[i] = char
  THEN (CHOOSE i \in DOMAIN SymbolValues :
          /\ SymbolValues[i] = char
          /\ \A j \in DOMAIN SymbolValues : SymbolValues[j] = char => i <= j) - 1
  ELSE -1

\* symbols[index] as join('') renders it: an index outside the array gives
\* undefined, which join renders as the empty string.
SymbolAt(index) ==
  IF index + 1 \in DOMAIN SymbolValues THEN <<SymbolValues[index + 1]>> ELSE <<>>

\* this.symbolMap[char] || char.
Substitute(char) ==
  IF \E i \in DOMAIN symbolMap : symbolMap[i][1] = char
  THEN symbolMap[CHOOSE i \in DOMAIN symbolMap : symbolMap[i][1] = char][2]
  ELSE char

\* this.reverseMap[char] || char: the constructor writes reverseMap[value] =
\* key entry by entry, so the last key written for a symbol stays.
reverseMap(char) ==
  IF \E i \in DOMAIN symbolMap : symbolMap[i][2] = char
  THEN symbolMap[CHOOSE i \in DOMAIN symbolMap :
                   /\ symbolMap[i][2] = char
                   /\ \A j \in DOMAIN symbolMap : symbolMap[j][2] = char => j <= i][1]
  ELSE char

\* The remainder operator of JavaScript: the result has the sign of a.
JsRem(a, n) == IF a >= 0 THEN a % n ELSE 0 - ((0 - a) % n)

\* a ^ b on code units.
RECURSIVE Xor(_, _)
Xor(a, b) ==
  IF a = 0 THEN b
  ELSE IF b = 0 THEN a
  ELSE 2 * Xor(a \div 2, b \div 2) + (IF a % 2 = b % 2 THEN 0 ELSE 1)

\* array.join(''): the concatenation of the strings of a sequence.
RECURSIVE Join(_)
Join(strings) ==
  IF strings = <<>> THEN <<>> ELSE Head(strings) \o Join(Tail(strings))

\* string.split(separator), for a one-character separator.
RECURSIVE Split(_, _)
Split(s, separator) ==
  LET i == IndexOf(s, separator)
  IN  IF i = 0 THEN <<s>> ELSE <<Before(s, i)>> \o Split(From(s, i + 1), separator)

IsDigitCode(char) == char \in DigitCode(0)..DigitCode(9)

\* One octet of isValidIP's regex: 25[0-5] | 2[0-4][0-9] | [01]?[0-9][0-9]?.
IsOctet(o) ==
  /\ Len(o) \in 1..3
  /\ \A i \in DOMAIN o : IsDigitCode(o[i])
  /\ Len(o) = 3 =>
       \/ o[1] \in {DigitCode(0), DigitCode(1)}
       \/ o[1] = DigitCode(2) /\ o[2] \in DigitCode(0)..DigitCode(4)
       \/ o[1] = DigitCode(2) /\ o[2] = DigitCode(5) /\ o[3] \in DigitCode(0)..DigitCode(5)

\* isValidIP(ip): four octets separated by periods, and nothing else.
isValidIP(ip) ==
  LET octets == Split(ip, Period)
  IN  Len(octets) = 4 /\ \A i \in DOMAIN octets : IsOctet(octets[i])

\* applyRotation(encoded), with the encoder's rotationKey.
applyRotation(encoder, encoded) ==
  Join([i \in DOMAIN encoded |->
          LET index == SymbolIndexOf(encoded[i])
          IN  IF index # -1
              THEN SymbolAt(JsRem(index + encoder.rotationKey, Len(SymbolValues)))
              ELSE <<encoded[i]>>])

\* reverseRotation(rotated).
reverseRotation(encoder, rotated) ==
  Join([i \in DOMAIN rotated |->
          LET index == SymbolIndexOf(rotated[i])
          IN  IF index # -1
              THEN SymbolAt(JsRem(index - encoder.rotationKey + Len(SymbolValues),
                                  Len(SymbolValues)))
              ELSE <<rotated[i]>>])

\* The code units of the key 'UTOPIA'.
ObfuscationKey == <<85, 84, 79, 80, 73, 65>>

\* applyCryptographicObfuscation(encoded): each code unit XOR the key's
\* code unit at index % key.length.
applyCryptographicObfuscation(encoded) ==
  [i \in DOMAIN encoded |->
     Xor(encoded[i], ObfuscationKey[((i - 1) % Len(ObfuscationKey)) + 1])]

\* reverseCryptographicObfuscation(obfuscated).
reverseCryptographicObfuscation(obfuscated) == applyCryptographicObfuscation(obfuscated)

\* What a call that returns, and one that throws, hands to its caller.
Value(v) == [threw |-> FALSE, value |-> v]

Throw(message) == [threw |-> TRUE, message |-> message]

\* encode(ipAddress) of an encoder with a securityLevel and a rotationKey.
encode(encoder, ipAddress) ==
  LET encoded == [i \in DOMAIN ipAddress |-> Substitute(ipAddress[i])]
  IN  IF ~isValidIP(ipAddress) THEN Throw("Invalid IP address format")
      ELSE IF encoder.securityLevel = 2 THEN Value(applyRotation(encoder, encoded))
      ELSE IF encoder.securityLevel = 3 THEN Value(applyCryptographicObfuscation(encoded))
      ELSE Value(encoded)

\* decode(utipAddress).
decode(encoder, utipAddress) ==
  LET reversed == IF encoder.securityLevel = 2 THEN reverseRotation(encoder, utipAddress)
                  ELSE IF encoder.securityLevel = 3
                  THEN reverseCryptographicObfuscation(utipAddress)
                  ELSE utipAddress
      decoded == [i \in DOMAIN reversed |-> reverseMap(reversed[i])]
  IN  IF ~isValidIP(decoded) THEN Throw("Invalid UT-IP address - cannot decode")
      ELSE Value(decoded)

\* demonstrateEncoding(ipAddress): what encode or decode throws leaves it.
demonstrateEncoding(encoder, ipAddress) ==
  LET encoded == encode(encoder, ipAddress)
      decoded == decode(encoder, encoded.value)
  IN  IF encoded.threw THEN encoded
      ELSE IF decoded.threw THEN decoded
      ELSE Value([original |-> ipAddress, encoded |-> encoded.value,
                  decoded |-> decoded.value, securityLevel |-> encoder.securityLevel])

\* The code units of a string of digits.
DigitString(digits) == [i \in DOMAIN digits |-> DigitCode(digits[i])]

\* The octets the addresses are put together from: 256 is no octet.
EncoderOctets ==
  {DigitString(<<0>>), DigitString(<<1>>), DigitString(<<3>>), DigitString(<<9>>),
   DigitString(<<2, 5, 5>>), DigitString(<<2, 5, 6>>)}

EncoderAddresses ==
  {a \o <<Period>> \o b \o <<Period>> \o c \o <<Period>> \o d :
     a \in EncoderOctets, b \in EncoderOctets, c \in EncoderOctets, d \in EncoderOctets}

\* options.securityLevel.
SecurityLevels == {1, 2, 3}

\* options.rotationKey: none, one that rotates a digit onto the period's
\* symbol, one that rotates the period's symbol, and one longer than the
\* symbol table.
RotationKeys == {0, 1, 7, 13}

InitEncoder ==
  /\ registries = InitialRegistries
  /\ cacheTTL = InitialCacheTTL
  /\ utipEnabled = TRUE
  /\ cache = <<>>
  /\ now = 0
  /\ calls = [s \in Callers |-> IdleCall]
  /\ result = NoResult
  /\ prev = NoPrev
  /\ cleared = FALSE
  /\ utipCalls = NoUTIPCalls
  /\ stats = ZeroStats(0)
  /\ requests = NoRequests
  /\ input \in {[encoder |-> [securityLevel |-> level, rotationKey |-> key],
                 ipAddress |-> ip] :
                  level \in SecurityLevels, key \in RotationKeys, ip \in EncoderAddresses}
  /\ output = NoOutput

\* new UTIPEncoder({securityLevel, rotationKey}).demonstrateEncoding(ipAddress).
ApplyDemonstrateEncoding ==
  /\ output = NoOutput
  /\ output' = demonstrateEncoding(input.encoder, input.ipAddress)
  /\ UNCHANGED <<cache, now, calls, result, prev, cleared, input,
                 registries, cacheTTL, utipEnabled, utipCalls, stats, requests>>

NextEncoder == ApplyDemonstrateEncoding

SpecEncoder == InitEncoder /\ [][NextEncoder]_vars

(***************************************************************************)
(* resolveWithUTIP and setUTIPEnabled.  resolveWithUTIP calls resolve and  *)
(* awaits it; when the resolve call settles it builds its own result.      *)
(***************************************************************************)

\* new Date(t).toISOString().
ISOString(t) == <<"ISO-8601", t>>

\* this.utipEncoder.encodeInText(text) and url.match(ipRegex) on what
\* resolve returned: undefined has no replace and no match method, so the
\* call throws a TypeError; the URLs of the records and of the endpoints
\* hold no dotted quad, so replace leaves them as they are and match finds
\* nothing.
encodeInText(text) ==
  IF text = Undefined THEN Throw("TypeError") ELSE Value(text)

\* What resolveWithUTIP(address, includeUTIP) settles with once its resolve
\* call has settled as resolved, at time t with this.utipEnabled = enabled.
\* The record keeps the arguments, the flag as it was read and the resolve
\* call next to what the caller receives.
resolveWithUTIP(address, includeUTIP, enabled, resolved, t) ==
  LET encodedURL == encodeInText(resolved.url)
      history == [address |-> address, includeUTIP |-> includeUTIP,
                  enabled |-> enabled, resolved |-> resolved]
      failed == [threw |-> TRUE, unsAddress |-> <<>>, resolvedURL |-> <<>>,
                 timestamp |-> <<>>, hasUTIP |-> FALSE, encodedURL |-> <<>>]
      plain == [threw |-> FALSE, unsAddress |-> address, resolvedURL |-> resolved.url,
                timestamp |-> ISOString(t), hasUTIP |-> FALSE, encodedURL |-> <<>>]
  IN  [call |-> history,
       settled |->
         IF resolved.outcome # "success" THEN failed
         ELSE IF ~(includeUTIP /\ enabled) THEN plain
         ELSE IF encodedURL.threw THEN failed
         ELSE [plain EXCEPT !.hasUTIP = TRUE, !.encodedURL = encodedURL.value]]

\* A caller calls resolveWithUTIP(address, includeUTIP), which calls resolve.
CallResolveWithUTIP(s, address, includeUTIP) ==
  /\ utipCalls[s].pc = "idle"
  /\ StartResolve(s, address)
  /\ utipCalls' = [utipCalls EXCEPT ![s] =
                     [pc |-> "awaiting", address |-> address, includeUTIP |-> includeUTIP]]

\* resolveWithUTIP resumes with what its resolve call settled with, and
\* settles itself.
UTIPResumes(s) ==
  /\ result # NoResult
  /\ utipCalls[s].pc = "awaiting"
  /\ output' = resolveWithUTIP(utipCalls[s].address, utipCalls[s].includeUTIP,
                               utipEnabled, result, now)
  /\ result' = NoResult
  /\ utipCalls' = [utipCalls EXCEPT ![s] = NoUTIPCall]
  /\ UNCHANGED <<registries, cacheTTL, utipEnabled, cache, now, calls, prev, cleared,
                 stats, requests, input>>

\* setUTIPEnabled(enabled).
SetUTIPEnabled(enabled) ==
  /\ result = NoResult
  /\ utipEnabled' = enabled
  /\ UNCHANGED <<registries, cacheTTL, cache, now, calls, result, prev, cleared,
                 utipCalls, stats, requests, input, output>>

\* An address of a record that maps directly, one of a record resolved by
\* http endpoints, and one that parseAddress rejects.
UTIPAddresses == {AddrPlain, AddrRemote, AddrShort}

NextUTIP ==
  \/ \E s \in DOMAIN calls, address \in UTIPAddresses, includeUTIP \in BOOLEAN :
       CallResolveWithUTIP(s, address, includeUTIP)
  \/ \E s \in DOMAIN calls, raises \in BOOLEAN : LookupSettles(s, raises)
  \/ \E s \in DOMAIN calls : Mapping(s)
  \/ \E s \in DOMAIN calls, reply \in EndpointReplies : EndpointSettles(s, reply)
  \/ \E s \in DOMAIN calls : CacheWrite(s)
  \/ \E s \in DOMAIN calls : UTIPResumes(s)
  \/ \E enabled \in BOOLEAN : SetUTIPEnabled(enabled)

SpecUTIP == Init /\ [][NextUTIP]_vars

(***************************************************************************)
(* The resolver called with addresses that differ only in the letter case  *)
(* of their path: one caller, the clock and clearCache as in Spec.         *)
(***************************************************************************)

\* utopia.akc//.B : AddrPlain with its subdomain in upper case; the records
\* of akc have the subdomain .b only.
AddrUpperSubdomain == LowerUtopia \o <<"a", "k", "c">> \o <<"/", "/", ".", "B">>

\* utopia.bob//D : AddrDefault with its path in upper case.
AddrUpperPath == LowerUtopia \o <<"b", "o", "b">> \o <<"/", "/", "D">>

HistoryAddresses == {AddrPlain, AddrUpperSubdomain, AddrDefault, AddrUpperPath}

NextHistory ==
  \/ \E s \in DOMAIN calls, address \in HistoryAddresses : Resolve(s, address)
  \/ \E s \in DOMAIN calls, raises \in BOOLEAN : LookupSettles(s, raises)
  \/ \E s \in DOMAIN calls : Mapping(s)
  \/ \E s \in DOMAIN calls : CacheWrite(s)
  \/ Deliver
  \/ ClearCache
  \/ Tick

SpecHistory == Init /\ [][NextHistory]_vars

(***************************************************************************)
(* The browser extension's service worker (src/browser-extension/         *)
(* background.js): its own resolver with a cache of its own, the request   *)
(* listener, the resolve and resetStats messages and the periodic cache    *)
(* cleanup.  The variable cache is unsResolver.cache here.  A handler is   *)
(* split at its awaits; timers and messages run between its steps.         *)
(***************************************************************************)

\* The number of intercepted requests counted since the last resetStats
\* beyond which no further request is intercepted.
MaxResolutions == 2

\* this.cacheTTL of UNSExtensionResolver (3600000 ms), in clock ticks.
ExtensionCacheTTL == 2

\* this.registries of UNSExtensionResolver.
ExtensionRegistries == <<"https://registry.utopia.network", "https://dht.uns.org">>

\* mockData of mockResolve: network -> subdomain -> base URL.
mockData ==
  [network \in {<<"d", "i", "l", "l", "a", "n", "e", "t">>, <<"a", "l", "i", "c", "e">>} |->
     IF network = <<"d", "i", "l", "l", "a", "n", "e", "t">>
     THEN [subdomain \in {<<".", "o", "b", "s", "i", "d", "i", "a", "n", "n", "o", "t", "e", "s">>,
                           <<".", "n", "e", "x", "t", "c", "l", "o", "u", "d">>,
                           <<".", "g", "i", "t">>} |->
             IF subdomain = <<".", "o", "b", "s", "i", "d", "i", "a", "n", "n", "o", "t", "e", "s">>
             THEN <<"https://notes.dillanet.org">>
             ELSE IF subdomain = <<".", "n", "e", "x", "t", "c", "l", "o", "u", "d">>
             THEN <<"https://cloud.dillanet.org">>
             ELSE <<"https://git.dillanet.org">>]
     ELSE [subdomain \in {<<".", "b", "l", "o", "g">>, <<".", "p", "h", "o", "t", "o", "s">>} |->
             IF subdomain = <<".", "b", "l", "o", "g">> THEN <<"https://alice.blog">>
             ELSE <<"https://photos.alice.cloud">>]]

\* parseAddress of UNSExtensionResolver: /^utopia\.([^\/]+)\/\/(.*)$/, case
\* sensitive; the network is any run of characters other than the slash.
ExtensionParseAddress(address) ==
  LET rest == From(address, Len(LowerUtopia) + 1)
      i == IndexOf(rest, "/")
  IN  IF /\ Len(address) >= Len(LowerUtopia)
         /\ Before(address, Len(LowerUtopia) + 1) = LowerUtopia
         /\ i >= 2
         /\ Len(rest) >= i + 1
         /\ rest[i + 1] = "/"
         /\ \A j \in (i + 2)..Len(rest) : rest[j] \notin LineTerminators
      THEN [ok |-> TRUE, network |-> Before(rest, i), path |-> From(rest, i + 2)]
      ELSE [ok |-> FALSE, error |-> Error("Invalid UNS address", address)]

\* mockResolve(parsed).
mockResolve(parsed) ==
  LET slash == IndexOf(parsed.path, "/")
      subdomain == IF slash = 0 THEN parsed.path ELSE Before(parsed.path, slash)
  IN  IF /\ parsed.network \in DOMAIN mockData
         /\ StartsWith(parsed.path, ".")
         /\ subdomain \in DOMAIN mockData[parsed.network]
      THEN Value(mockData[parsed.network][subdomain]
                 \o From(parsed.path, Len(subdomain) + 1))
      ELSE Throw("No resolver found")

\* The url field of a registry's reply.
ExtensionRemoteURL == <<"https://remote.alice/blog">>

\* What a registry's reply to the POST can be: the fetch rejects, the status
\* is not ok, the status is ok and response.json() rejects, the body has a
\* url field, or the body has none.
ExtensionReplies == {"rejects", "not ok", "bad body", "url", "no url"}

\* cached && Date.now() - cached.timestamp < this.cacheTTL.
ExtensionCacheHit(c, cacheKey, t) ==
  cacheKey \in DOMAIN c /\ t - c[cacheKey].timestamp < ExtensionCacheTTL

\* unsResolver.resolve(address) up to its first await, as a step of the
\* handler with the given locals: the cache check, parseAddress and the
\* fetch of the first registry.
StartedHandler(request, address) ==
  LET cacheKey == ToLowerCase(address)
      parsed == ExtensionParseAddress(address)
  IN  IF ExtensionCacheHit(cache, cacheKey, now)
      THEN [request EXCEPT !.pc = "resolved", !.address = address,
                           !.fromCache = TRUE, !.url = cache[cacheKey].url]
      ELSE IF ~parsed.ok
      THEN [request EXCEPT !.pc = "rejected", !.address = address,
                           !.error = parsed.error]
      ELSE [request EXCEPT !.pc = "fetch", !.address = address, !.parsed = parsed,
                           !.registryIndex = 1, !.fetches = <<1>>]

\* `utopia.${url.hostname.replace(/^utopia\./, '')}//${url.pathname}${url.search}${url.hash}`
\* for the URL of an intercepted request, given as its hostname and the rest.
UnsAddress(details) ==
  LET hostname == details.hostname
      network == IF /\ Len(hostname) >= Len(LowerUtopia)
                    /\ Before(hostname, Len(LowerUtopia) + 1) = LowerUtopia
                 THEN From(hostname, Len(LowerUtopia) + 1)
                 ELSE hostname
  IN  LowerUtopia \o network \o <<"/", "/">> \o details.rest

\* The URL of the intercepted requests: http://utopia.alice/.blog (a
\* pathname starts with a slash).
RequestURLs ==
  {[hostname |-> LowerUtopia \o <<"a", "l", "i", "c", "e">>,
    rest |-> <<"/">> \o <<".", "b", "l", "o", "g">>]}

\* request.address of the resolve messages: utopia.alice//.blog,
\* utopia.alice//.photos, utopia.alice//.docs, which the mock table does
\* not hold, and a string that is no address.
MessageAddresses ==
  {LowerUtopia \o <<"a", "l", "i", "c", "e">> \o <<"/", "/">> \o <<".", "b", "l", "o", "g">>,
   LowerUtopia \o <<"a", "l", "i", "c", "e">> \o <<"/", "/">>
     \o <<".", "p", "h", "o", "t", "o", "s">>,
   LowerUtopia \o <<"a", "l", "i", "c", "e">> \o <<"/", "/">> \o <<".", "d", "o", "c", "s">>,
   <<"a", "l", "i", "c", "e">>}

\* The listener of chrome.webRequest.onBeforeRequest starts and awaits the
\* settings.
OnBeforeRequest(h, details) ==
  /\ requests[h].pc = "idle"
  /\ stats.totalResolutions < MaxResolutions
  /\ requests' = [requests EXCEPT ![h] =
                    [IdleRequest EXCEPT !.pc = "settings", !.kind = "request",
                                        !.address = UnsAddress(details)]]
  /\ UNCHANGED <<registries, cacheTTL, utipEnabled, cache, now, calls, result, prev,
                 cleared, utipCalls, stats, input, output>>

\* ReturnsEarly that looks at the enabled setting only.
ReturnsEarlyOnEnabledOnly(settings) == ~settings.enabled

\* if (!settings.enabled || !settings.autoRedirect) return {}.
ReturnsEarly(settings) == ~settings.enabled \/ ~settings.autoRedirect

\* The settings arrive: with enabled or autoRedirect off the listener
\* returns {}; otherwise it counts the resolution and calls
\* unsResolver.resolve.
SettingsArrive(h, enabled, autoRedirect) ==
  /\ requests[h].pc = "settings"
  /\ LET settings == [enabled |-> enabled, autoRedirect |-> autoRedirect]
         request == [requests[h] EXCEPT !.settings = settings]
     IN  IF ReturnsEarly(settings)
         THEN /\ requests' = [requests EXCEPT ![h] = ReturnedRequest(request, "{}")]
              /\ UNCHANGED stats
         ELSE /\ stats' = [stats EXCEPT !.totalResolutions = @ + 1]
              /\ requests' = [requests EXCEPT ![h] =
                                StartedHandler(request, request.address)]
  /\ UNCHANGED <<registries, cacheTTL, utipEnabled, cache, now, calls, result, prev,
                 cleared, utipCalls, input, output>>

\* The onMessage listener receives {action: 'resolve', address} and calls
\* unsResolver.resolve.
OnMessageResolve(h, address) ==
  /\ requests[h].pc = "idle"
  /\ requests' = [requests EXCEPT ![h] =
                    StartedHandler([IdleRequest EXCEPT !.kind = "message"], address)]
  /\ UNCHANGED <<registries, cacheTTL, utipEnabled, cache, now, calls, result, prev,
                 cleared, utipCalls, stats, input, output>>

\* performResolution that gives up on the registries after the first one
\* that fails, and goes to mockResolve.
performResolutionOneRegistry(request, reply) ==
  LET mock == mockResolve(request.parsed)
      replied == [request EXCEPT !.replies = Append(@, reply)]
  IN  IF reply \in {"url", "no url"}
      THEN [replied EXCEPT !.pc = "cachewrite",
                           !.url = IF reply = "url" THEN ExtensionRemoteURL ELSE Undefined]
      ELSE IF mock.threw
      THEN [replied EXCEPT !.pc = "rejected",
                           !.error = Error(mock.message, request.address)]
      ELSE [replied EXCEPT !.pc = "cachewrite", !.url = mock.value]

\* performResolution(parsed) from the reply to the fetch it awaits.  A reply
\* that is ok returns its url field, with or without the field; a rejected
\* fetch or response.json() is caught and a reply that is not ok is passed
\* over, and the loop goes on to the next registry, or after the last one
\* to mockResolve.
performResolution(request, reply) ==
  LET mock == mockResolve(request.parsed)
      replied == [request EXCEPT !.replies = Append(@, reply)]
  IN  IF reply \in {"url", "no url"}
      THEN [replied EXCEPT !.pc = "cachewrite",
                           !.url = IF reply = "url" THEN ExtensionRemoteURL ELSE Undefined]
      ELSE IF request.registryIndex < Len(ExtensionRegistries)
      THEN [replied EXCEPT !.registryIndex = @ + 1,
                           !.fetches = Append(@, request.registryIndex + 1)]
      ELSE IF mock.threw
      THEN [replied EXCEPT !.pc = "rejected",
                           !.error = Error(mock.message, request.address)]
      ELSE [replied EXCEPT !.pc = "cachewrite", !.url = mock.value]

\* The fetch awaited in performResolution settles.
FetchSettles(h, reply) ==
  /\ requests[h].pc = "fetch"
  /\ requests' = [requests EXCEPT ![h] = performResolution(requests[h], reply)]
  /\ UNCHANGED <<registries, cacheTTL, utipEnabled, cache, now, calls, result, prev,
                 cleared, utipCalls, stats, input, output>>

\* unsResolver.resolve resumes with the resolved URL, writes the cache and
\* returns.
ResolveResumes(h) ==
  LET request == requests[h]
  IN  /\ request.pc = "cachewrite"
      /\ cache' = CacheSet(cache, ToLowerCase(request.address), request.url, now)
      /\ requests' = [requests EXCEPT ![h] = [request EXCEPT !.pc = "resolved"]]
      /\ UNCHANGED <<registries, cacheTTL, utipEnabled, now, calls, result, prev,
                     cleared, utipCalls, stats, input, output>>

\* The handler resumes with what unsResolver.resolve settled with.  The
\* request listener counts a success and awaits the showNotifications
\* setting, or counts a failure in its catch block and returns the error
\* page; the message listener sends its response.
HandlerResumes(h) ==
  LET request == requests[h]
  IN  /\ request.pc \in {"resolved", "rejected"}
      /\ IF request.kind = "message"
         THEN /\ requests' = [requests EXCEPT ![h] = IdleRequest]
              /\ UNCHANGED stats
         ELSE IF request.pc = "resolved"
         THEN /\ stats' = [stats EXCEPT !.successfulResolutions = @ + 1]
              /\ requests' = [requests EXCEPT ![h] = [request EXCEPT !.pc = "notify"]]
         ELSE /\ stats' = [stats EXCEPT !.failedResolutions = @ + 1]
              /\ requests' = [requests EXCEPT ![h] = ReturnedRequest(request, "error page")]
      /\ UNCHANGED <<registries, cacheTTL, utipEnabled, cache, now, calls, result, prev,
                     cleared, utipCalls, input, output>>

\* new URL(resolvedURL) throws a TypeError for a value that is no URL.
IsURL(url) == url # Undefined

\* The showNotifications setting arrives.  With the setting on, the
\* notification's message takes new URL(resolvedURL).hostname; what that
\* throws is caught by the listener's catch block, which counts a failure
\* and returns the error page.  Otherwise the listener returns the
\* redirect.
NotificationSetting(h, showNotifications) ==
  LET request == requests[h]
  IN  /\ request.pc = "notify"
      /\ stats' = IF showNotifications /\ ~IsURL(request.url)
                  THEN [stats EXCEPT !.failedResolutions = @ + 1]
                  ELSE stats
      /\ requests' = [requests EXCEPT ![h] =
                        ReturnedRequest(request,
                                        IF showNotifications /\ ~IsURL(request.url)
                                        THEN "error page" ELSE "redirect")]
      /\ UNCHANGED <<registries, cacheTTL, utipEnabled, cache, now, calls, result, prev,
                     cleared, utipCalls, input, output>>

\* The onMessage listener receives {action: 'resetStats'}.
ResetStats ==
  /\ stats' = ZeroStats(now)
  /\ UNCHANGED <<registries, cacheTTL, utipEnabled, cache, now, calls, result, prev,
                 cleared, utipCalls, requests, input, output>>

\* IsExpired that takes every entry written before the present tick for
\* expired.
IsExpiredEarly(entry, t) == t - entry.timestamp > 0

\* now - value.timestamp > unsResolver.cacheTTL.
IsExpired(entry, t) == t - entry.timestamp > ExtensionCacheTTL

\* The callback of setInterval: the periodic cache cleanup.  output keeps
\* what the last cleanup deleted, with the age of each entry.
CacheCleanup ==
  LET expired == {key \in DOMAIN cache : IsExpired(cache[key], now)}
  IN  /\ cache' = [key \in DOMAIN cache \ expired |-> cache[key]]
      /\ output' = [deleted |-> {[key |-> key, age |-> now - cache[key].timestamp] :
                                   key \in expired}]
      /\ UNCHANGED <<registries, cacheTTL, utipEnabled, now, calls, result, prev,
                     cleared, utipCalls, stats, requests, input>>

\* The service worker with its request listener and the resetStats message;
\* the clock stands still.
NextExtension ==
  \/ \E h \in Handlers, details \in RequestURLs : OnBeforeRequest(h, details)
  \/ \E h \in Handlers, enabled \in BOOLEAN, autoRedirect \in BOOLEAN :
       SettingsArrive(h, enabled, autoRedirect)
  \/ \E h \in Handlers, reply \in ExtensionReplies : FetchSettles(h, reply)
  \/ \E h \in Handlers : ResolveResumes(h)
  \/ \E h \in Handlers : HandlerResumes(h)
  \/ \E h \in Handlers, showNotifications \in BOOLEAN :
       NotificationSetting(h, showNotifications)
  \/ ResetStats

SpecExtension == Init /\ [][NextExtension]_vars

\* The handler slot of the resolve messages: the popup sends one message
\* and waits for its response.
MessageHandlers == {1}

\* The service worker with its resolve messages, the periodic cache cleanup
\* and the clock: the cleanup and the clock run between the steps of a
\* resolve.
NextCleanup ==
  \/ \E h \in MessageHandlers, address \in MessageAddresses : OnMessageResolve(h, address)
  \/ \E h \in MessageHandlers, reply \in ExtensionReplies : FetchSettles(h, reply)
  \/ \E h \in MessageHandlers : ResolveResumes(h)
  \/ \E h \in MessageHandlers : HandlerResumes(h)
  \/ CacheCleanup
  \/ Tick

SpecCleanup == Init /\ [][NextCleanup]_vars

(***************************************************************************)
(* The popup's messages to the service worker: resolve, clearCache,        *)
(* exportData, importData and resetStats.  output keeps the data of the    *)
(* last exportData response, which importData may be given back.           *)
(***************************************************************************)

\* The onMessage listener receives {action: 'clearCache'}.
OnMessageClearCache ==
  /\ cache' = <<>>
  /\ UNCHANGED <<registries, cacheTTL, utipEnabled, now, calls, result, prev,
                 cleared, utipCalls, stats, requests, input, output>>

\* The onMessage listener receives {action: 'exportData'}: the response
\* carries the entries of the cache, the stats and the time.
OnMessageExportData ==
  /\ output' = [data |-> [cache |-> cache, stats |-> stats, timestamp |-> now]]
  /\ UNCHANGED <<registries, cacheTTL, utipEnabled, cache, now, calls, result, prev,
                 cleared, utipCalls, stats, requests, input>>

\* A message without a data field.
NoData == [none |-> TRUE]

\* A URL that no registry and no mock table gives.
ForeignURL == <<"https://elsewhere.example">>

\* request.data of the importData messages: none, data with an empty list
\* of entries (an empty array is truthy), data whose list holds an entry
\* for utopia.alice//.blog written by the sender with the given timestamp,
\* and the data of the last exportData response.
ImportableData(t) ==
  {NoData,
   [cache |-> <<>>],
   [cache |-> [key \in {LowerUtopia \o <<"a", "l", "i", "c", "e">> \o <<"/", "/">>
                          \o <<".", "b", "l", "o", "g">>} |->
                 [url |-> ForeignURL, timestamp |-> t]]]}
  \cup (IF output = NoOutput THEN {} ELSE {output.data})

\* if (request.data && request.data.cache) unsResolver.cache = new
\* Map(request.data.cache): the cache after importData.
ImportedCache(c, data) ==
  IF data # NoData THEN data.cache ELSE c

\* The onMessage listener receives {action: 'importData', data}.
OnMessageImportData(data) ==
  /\ cache' = ImportedCache(cache, data)
  /\ UNCHANGED <<registries, cacheTTL, utipEnabled, now, calls, result, prev,
                 cleared, utipCalls, stats, requests, input, output>>

\* The service worker with the messages of the popup; the clock stands
\* still.
NextMessages ==
  \/ \E h \in MessageHandlers, address \in MessageAddresses : OnMessageResolve(h, address)
  \/ \E h \in MessageHandlers, reply \in ExtensionReplies : FetchSettles(h, reply)
  \/ \E h \in MessageHandlers : ResolveResumes(h)
  \/ \E h \in MessageHandlers : HandlerResumes(h)
  \/ OnMessageClearCache
  \/ OnMessageExportData
  \/ \E data \in ImportableData(now) : OnMessageImportData(data)
  \/ ResetStats

SpecMessages == Init /\ [][NextMessages]_vars

(***************************************************************************)
(* The command-line tool (src/unnamed/part_001): validateNetworkName next  *)
(* to parseAddress, over network names written in lowercase letters,       *)
(* digits and hyphens.                                                     *)
(***************************************************************************)

\* validateNetworkName that lets names of two characters pass.
validateNetworkNameTwoCharacters(network) ==
  /\ Len(network) >= 2
  /\ Len(network) <= 63
  /\ IsLower(network[1]) \/ network[1] \in Digits
  /\ \A i \in 2..(Len(network) - 1) :
       IsLower(network[i]) \/ network[i] \in Digits \/ network[i] = "-"
  /\ IsLower(network[Len(network)]) \/ network[Len(network)] \in Digits

\* /^[a-z0-9][a-z0-9\-]{1,61}[a-z0-9]$/.test(network).
validateNetworkName(network) ==
  /\ Len(network) >= 1 + 1 + 1
  /\ Len(network) <= 1 + 61 + 1
  /\ IsLower(network[1]) \/ network[1] \in Digits
  /\ \A i \in 2..(Len(network) - 1) :
       IsLower(network[i]) \/ network[i] \in Digits \/ network[i] = "-"
  /\ IsLower(network[Len(network)]) \/ network[Len(network)] \in Digits

\* The strings of a given length over a letter, a digit and the hyphen.
RECURSIVE ShortNames(_)
ShortNames(n) ==
  IF n = 0 THEN {<<>>}
  ELSE {name \o <<ch>> : name \in ShortNames(n - 1), ch \in {"a", "0", "-"}}

\* The longest of the short names.
MaxShortName == 4

\* Network names over [a-z0-9-]: every string of up to MaxShortName
\* characters over a letter, a digit and the hyphen, and names around the
\* upper limit of the length with and without a hyphen at an end.
NetworkNames ==
  UNION {ShortNames(n) : n \in 0..MaxShortName}
  \cup {Repeat("a", MaxNetworkLength - 1), Repeat("a", MaxNetworkLength),
        Repeat("a", MaxNetworkLength + 1),
        Repeat("a", MaxNetworkLength - 1) \o <<"-">>,
        <<"-">> \o Repeat("a", MaxNetworkLength - 1),
        Repeat("a", MaxNetworkLength - 2) \o <<"-", "0">>,
        Repeat("a", MaxNetworkLength) \o <<"-">>}

InitNames ==
  /\ registries = InitialRegistries
  /\ cacheTTL = InitialCacheTTL
  /\ utipEnabled = TRUE
  /\ cache = <<>>
  /\ now = 0
  /\ calls = [s \in Callers |-> IdleCall]
  /\ result = NoResult
  /\ prev = NoPrev
  /\ cleared = FALSE
  /\ utipCalls = NoUTIPCalls
  /\ stats = ZeroStats(0)
  /\ requests = NoRequests
  /\ input \in {[network |-> network] : network \in NetworkNames}
  /\ output = NoOutput

\* validateNetworkName(network) and parseAddress('utopia.' + network + '//').
ApplyValidateNetworkName ==
  /\ output = NoOutput
  /\ output' = [valid |-> validateNetworkName(input.network),
                parsed |-> parseAddress(LowerUtopia \o input.network \o <<"/", "/">>)]
  /\ UNCHANGED <<cache, now, calls, result, prev, cleared, input,
                 registries, cacheTTL, utipEnabled, utipCalls, stats, requests>>

NextNames == ApplyValidateNetworkName

SpecNames == InitNames /\ [][NextNames]_vars

(***************************************************************************)
(* The commands of the command-line tool (src/unnamed/part_001) against   *)
(* its DHTRegistry.  Each command is a process of its own: it loads the    *)
(* identity from the key file, runs, and exits.  input is the identity in  *)
(* the key file; output keeps the outcome of the last command and the      *)
(* networks whose registration has succeeded.                              *)
(***************************************************************************)

\* mockData of DHTRegistry.lookup, which the function builds anew on every
\* call.
DHTMockData ==
  [network \in {<<"d", "i", "l", "l", "a", "n", "e", "t">>, <<"a", "l", "i", "c", "e">>} |->
     IF network = <<"d", "i", "l", "l", "a", "n", "e", "t">>
     THEN [owner |-> "did:key:z6MkhaXgBZDvotDkL5257faiztiGiC2QtKLGpbnnEGta2doK",
           resolvers |-> <<MockResolver>>,
           subdomains |->
             [sd \in {<<".", "o", "b", "s", "i", "d", "i", "a", "n", "n", "o", "t", "e", "s">>,
                      <<".", "n", "e", "x", "t", "c", "l", "o", "u", "d">>,
                      <<".", "g", "i", "t">>} |->
                IF sd = <<".", "g", "i", "t">> THEN <<"https://172.16.0.10:3000/git">>
                ELSE IF sd = <<".", "n", "e", "x", "t", "c", "l", "o", "u", "d">>
                THEN <<"https://10.0.0.100:9000/cloud">>
                ELSE <<"https://192.168.1.50:8080/notes">>],
           defaultURL |-> <<>>]
     ELSE [owner |-> "did:key:z6MkpTHR8VNsBxYAAWHut2Geadd9jSwuBV8xRoAnwWsdvktH",
           resolvers |-> <<MockResolver>>,
           subdomains |->
             [sd \in {<<".", "b", "l", "o", "g">>, <<".", "p", "h", "o", "t", "o", "s">>} |->
                IF sd = <<".", "b", "l", "o", "g">> THEN <<"https://192.168.0.20:4000/blog">>
                ELSE <<"https://10.0.1.30:5000/gallery">>],
           defaultURL |-> <<>>]]

\* DHTRegistry.lookup(network): mockData[network] || null.  What register
\* was given is not kept anywhere.
DHTLookup(network) ==
  IF network \in DOMAIN DHTMockData THEN DHTMockData[network] ELSE NoRecord

\* The key file: none before uns init, or an identity with its DID.
NoIdentity == [none |-> TRUE]

Identities ==
  {NoIdentity,
   [did |-> "did:key:z6MkpTHR8VNsBxYAAWHut2Geadd9jSwuBV8xRoAnwWsdvktH"],
   [did |-> "did:key:zc0ffee"]}

\* The outcome of a command: its exit status and the message it printed,
\* the networkInfo object it held when it ended, whether it changed the
\* subdomains of that object, and what it sent to the registry.
Outcome(command, network, subdomain, exit, message, networkInfo, changed, sent) ==
  [command |-> command, network |-> network, subdomain |-> subdomain, exit |-> exit,
   message |-> message, networkInfo |-> networkInfo, changed |-> changed, sent |-> sent]

\* registerNetwork(network, resolverURL).
registerNetwork(identity, network, resolverURL) ==
  LET failed(message) == Outcome("register", network, <<>>, 1, message, NoRecord, FALSE, "none")
      networkInfo == [network |-> network, owner |-> identity.did,
                      resolvers |-> <<resolverURL>>, subdomains |-> <<>>,
                      defaultURL |-> <<>>]
  IN  IF identity = NoIdentity THEN failed("Identity not found")
      ELSE IF ~validateNetworkName(network) THEN failed("Invalid network name format")
      ELSE IF DHTLookup(network) # NoRecord THEN failed("already registered")
      ELSE Outcome("register", network, <<>>, 0, "registered successfully",
                   networkInfo, FALSE, "register")

\* addSubdomain without the comparison of the owner with the identity.
addSubdomainNoOwnerCheck(identity, network, subdomain, targetURL) ==
  LET failed(message) ==
        Outcome("subdomain add", network, subdomain, 1, message, NoRecord, FALSE, "none")
      networkInfo == DHTLookup(network)
      updated == [networkInfo EXCEPT !.subdomains =
                    [sd \in DOMAIN networkInfo.subdomains \cup {subdomain} |->
                       IF sd = subdomain THEN targetURL ELSE networkInfo.subdomains[sd]]]
  IN  IF identity = NoIdentity THEN failed("Identity not found")
      ELSE IF ~StartsWith(subdomain, ".") THEN failed("Subdomain must start with a dot")
      ELSE IF networkInfo = NoRecord THEN failed("Network not found")
      ELSE Outcome("subdomain add", network, subdomain, 1,
                   "this.registry.update is not a function", updated, TRUE, "none")

\* addSubdomain(network, subdomain, targetURL).  With the guards passed it
\* sets the key in the networkInfo object it holds and calls
\* this.registry.update, which DHTRegistry does not have: the call throws a
\* TypeError before anything is sent.
addSubdomain(identity, network, subdomain, targetURL) ==
  LET failed(message) ==
        Outcome("subdomain add", network, subdomain, 1, message, NoRecord, FALSE, "none")
      networkInfo == DHTLookup(network)
      updated == [networkInfo EXCEPT !.subdomains =
                    [sd \in DOMAIN networkInfo.subdomains \cup {subdomain} |->
                       IF sd = subdomain THEN targetURL ELSE networkInfo.subdomains[sd]]]
  IN  IF identity = NoIdentity THEN failed("Identity not found")
      ELSE IF ~StartsWith(subdomain, ".") THEN failed("Subdomain must start with a dot")
      ELSE IF networkInfo = NoRecord THEN failed("Network not found")
      ELSE IF networkInfo.owner # identity.did THEN failed("You don't own network")
      ELSE Outcome("subdomain add", network, subdomain, 1,
                   "this.registry.update is not a function", updated, TRUE, "none")

\* removeSubdomain(network, subdomain).
removeSubdomain(identity, network, subdomain) ==
  LET failed(message) ==
        Outcome("subdomain remove", network, subdomain, 1, message, NoRecord, FALSE, "none")
      networkInfo == DHTLookup(network)
      updated == [networkInfo EXCEPT !.subdomains =
                    [sd \in DOMAIN networkInfo.subdomains \ {subdomain} |->
                       networkInfo.subdomains[sd]]]
  IN  IF identity = NoIdentity THEN failed("Identity not found")
      ELSE IF networkInfo = NoRecord THEN failed("Network not found")
      ELSE IF networkInfo.owner # identity.did THEN failed("You don't own network")
      ELSE IF SubdomainURL(networkInfo, subdomain) = <<>> THEN failed("Subdomain not found")
      ELSE Outcome("subdomain remove", network, subdomain, 1,
                   "this.registry.update is not a function", updated, TRUE, "none")

\* listSubdomains(network): it prints the error and returns.
listSubdomains(network) ==
  LET networkInfo == DHTLookup(network)
  IN  IF networkInfo = NoRecord
      THEN Outcome("subdomain list", network, <<>>, 0, "Network not found",
                   NoRecord, FALSE, "none")
      ELSE Outcome("subdomain list", network, <<>>, 0, "listed", networkInfo, FALSE, "none")

\* resolve(address) of the tool, with the resolver's default registries
\* (DHTRegistry, then IPFSRegistry and DNSRegistry, whose lookups return
\* null) and the empty cache of a new process.  The records of DHTRegistry
\* name mock resolvers only, so that resolveResource awaits no endpoint.
resolveCommand(address) ==
  LET parsed == parseAddress(address)
      networkInfo == DHTLookup(parsed.network)
      loop == ResolverLoop(networkInfo, parsed, 1)
      outcome(network, message, info) ==
        Outcome("resolve", network, <<>>, 0, message, info, FALSE, "none")
  IN  IF ~parsed.ok THEN outcome(<<>>, parsed.error.message, NoRecord)
      ELSE IF networkInfo = NoRecord THEN outcome(parsed.network, "Network not found", NoRecord)
      ELSE IF loop.kind = "return" THEN outcome(parsed.network, "Resolved", networkInfo)
      ELSE outcome(parsed.network, "All resolvers failed", networkInfo)

\* The arguments of the commands: the network of the documentation
\* (mine stands for mynetwork), a network of the mock data, and a name that
\* is too short; subdomains with and without the dot; one target.
CommandNetworks == {<<"m", "i", "n", "e">>, <<"a", "l", "i", "c", "e">>, <<"m", "e">>}

CommandSubdomains ==
  {<<".", "w", "e", "b", "a", "p", "p">>, <<".", "b", "l", "o", "g">>,
   <<"w", "e", "b", "a", "p", "p">>}

CommandTargets == {<<"https://myapp.com">>}

CommandAddresses ==
  {LowerUtopia \o network \o <<"/", "/">> \o subdomain :
     network \in CommandNetworks, subdomain \in CommandSubdomains}

InitCommands ==
  /\ registries = InitialRegistries
  /\ cacheTTL = InitialCacheTTL
  /\ utipEnabled = TRUE
  /\ cache = <<>>
  /\ now = 0
  /\ calls = [s \in Callers |-> IdleCall]
  /\ result = NoResult
  /\ prev = NoPrev
  /\ cleared = FALSE
  /\ utipCalls = NoUTIPCalls
  /\ stats = ZeroStats(0)
  /\ requests = NoRequests
  /\ input \in Identities
  /\ output = [registered |-> {}, last |-> NoOutput, wasRegistered |-> FALSE]

\* A command runs.  registered gets the network of a registerNetwork that
\* succeeded; wasRegistered tells whether the network of the command was
\* among them before.  DHTRegistry.register stores nothing.
RunCommand(outcome) ==
  /\ output' = [registered |->
                  IF outcome.command = "register" /\ outcome.exit = 0
                  THEN output.registered \cup {outcome.network}
                  ELSE output.registered,
                last |-> outcome,
                wasRegistered |-> outcome.network \in output.registered]
  /\ UNCHANGED <<cache, now, calls, result, prev, cleared, input,
                 registries, cacheTTL, utipEnabled, utipCalls, stats, requests>>

RegisterNetworkCommand(network, resolverURL) ==
  RunCommand(registerNetwork(input, network, resolverURL))

AddSubdomainCommand(network, subdomain, targetURL) ==
  RunCommand(addSubdomain(input, network, subdomain, targetURL))

RemoveSubdomainCommand(network, subdomain) ==
  RunCommand(removeSubdomain(input, network, subdomain))

ListSubdomainsCommand(network) ==
  RunCommand(listSubdomains(network))

ResolveCommand(address) ==
  RunCommand(resolveCommand(address))

NextCommands ==
  \/ \E network \in CommandNetworks, resolverURL \in CommandTargets :
       RegisterNetworkCommand(network, resolverURL)
  \/ \E network \in CommandNetworks, subdomain \in CommandSubdomains,
        targetURL \in CommandTargets :
       AddSubdomainCommand(network, subdomain, targetURL)
  \/ \E network \in CommandNetworks, subdomain \in CommandSubdomains :
       RemoveSubdomainCommand(network, subdomain)
  \/ \E network \in CommandNetworks : ListSubdomainsCommand(network)
  \/ \E address \in CommandAddresses : ResolveCommand(address)

SpecCommands == InitCommands /\ [][NextCommands]_vars

(***************************************************************************)
(* The options page (src/unnamed/part_000) and the settings in             *)
(* chrome.storage.sync, which the service worker writes on installation.   *)
(* input is the storage; output is the UNSOptions object of the page,      *)
(* which exists once the extension is installed.                           *)
(* A URL is its scheme with the separator, followed by the rest.           *)
(***************************************************************************)

\* The longest list of registries the page is given.
MaxRegistries == 3

\* customRegistries of this.defaultSettings.
DefaultRegistries ==
  <<<<"https://", "registry.utopia.network">>, <<"https://", "dht.uns.org">>>>

\* chrome.storage.sync with no customRegistries key: before the
\* installation, and after chrome.storage.sync.clear.  installed tells
\* whether onInstalled has run.
EmptyStorage(installed) ==
  [installed |-> installed, set |-> FALSE, customRegistries |-> <<>>]

\* new UNSOptions(): currentSettings = { ...this.defaultSettings }.  The
\* copy is shallow: customRegistries of currentSettings is the array of
\* defaultSettings until currentSettings gets another array (shared).
NewOptions ==
  [defaultRegistries |-> DefaultRegistries, customRegistries |-> DefaultRegistries,
   shared |-> TRUE, message |-> ""]

\* What the user types as a registry URL: a new http URL, a default one, a
\* URL of another scheme, and nothing.
TypedURLs ==
  {<<"http://", "localhost">>, <<"https://", "dht.uns.org">>, <<"ftp://", "x">>, <<>>}

\* url.startsWith('https://') || url.startsWith('http://').
HasHttpScheme(url) == url # <<>> /\ url[1] \in {"https://", "http://"}

\* The page with a new content of the array of currentSettings; when the
\* array is the one of defaultSettings, that one changes with it.
WithRegistries(options, list, message) ==
  [options EXCEPT !.customRegistries = list,
                  !.defaultRegistries = IF options.shared THEN list ELSE @,
                  !.message = message]

\* array.splice(index, 1), the index counted from 0.
Splice(list, index) ==
  [i \in 1..(Len(list) - 1) |-> IF i <= index THEN list[i] ELSE list[i + 1]]

\* chrome.runtime.onInstalled with reason 'install': the service worker
\* sets the default options, customRegistries: [] among them.
OnInstalled ==
  /\ ~input.installed
  /\ input' = [installed |-> TRUE, set |-> TRUE, customRegistries |-> <<>>]
  /\ UNCHANGED <<cache, now, calls, result, prev, cleared, output,
                 registries, cacheTTL, utipEnabled, utipCalls, stats, requests>>

\* The page is opened: new UNSOptions() and loadSettings(), which puts the
\* stored values over the defaults.
LoadSettings ==
  /\ input.installed
  /\ output' = IF input.set
               THEN [NewOptions EXCEPT !.customRegistries = input.customRegistries,
                                       !.shared = FALSE]
               ELSE NewOptions
  /\ UNCHANGED <<cache, now, calls, result, prev, cleared, input,
                 registries, cacheTTL, utipEnabled, utipCalls, stats, requests>>

\* addRegistry() with the URL typed.
AddRegistry(url) ==
  /\ input.installed
  /\ Len(output.customRegistries) < MaxRegistries
  /\ output' =
       IF url = <<>> THEN [output EXCEPT !.message = "Please enter a registry URL"]
       ELSE IF ~HasHttpScheme(url)
       THEN [output EXCEPT !.message = "Registry URL must start with http:// or https://"]
       ELSE IF \E i \in DOMAIN output.customRegistries : output.customRegistries[i] = url
       THEN [output EXCEPT !.message = "Registry already exists"]
       ELSE WithRegistries(output, Append(output.customRegistries, url), "Registry added")
  /\ UNCHANGED <<cache, now, calls, result, prev, cleared, input,
                 registries, cacheTTL, utipEnabled, utipCalls, stats, requests>>

\* removeRegistry(index).
RemovedRegistry(options, index) ==
  IF Len(options.customRegistries) <= 1
  THEN [options EXCEPT !.message = "Cannot remove the last registry"]
  ELSE WithRegistries(options, Splice(options.customRegistries, index), "Registry removed")

\* The Remove button of the list item with the given index.
RemoveRegistry(index) ==
  /\ input.installed
  /\ index \in 0..(Len(output.customRegistries) - 1)
  /\ output' = RemovedRegistry(output, index)
  /\ UNCHANGED <<cache, now, calls, result, prev, cleared, input,
                 registries, cacheTTL, utipEnabled, utipCalls, stats, requests>>

\* updateRegistry(index, newUrl) of the list item with the given index.
UpdateRegistry(index, newUrl) ==
  /\ input.installed
  /\ index \in 0..(Len(output.customRegistries) - 1)
  /\ output' =
       IF ~HasHttpScheme(newUrl)
       THEN [output EXCEPT !.message = "Registry URL must start with http:// or https://"]
       ELSE WithRegistries(output, [output.customRegistries EXCEPT ![index + 1] = newUrl],
                           output.message)
  /\ UNCHANGED <<cache, now, calls, result, prev, cleared, input,
                 registries, cacheTTL, utipEnabled, utipCalls, stats, requests>>

\* saveSettings() with valid numbers in the form: an empty list is refused,
\* any other list is stored.
SaveSettings ==
  /\ input.installed
  /\ IF Len(output.customRegistries) = 0
     THEN /\ output' = [output EXCEPT !.message = "At least one registry is required"]
          /\ UNCHANGED input
     ELSE /\ input' = [input EXCEPT !.set = TRUE,
                                    !.customRegistries = output.customRegistries]
          /\ output' = [output EXCEPT !.message = "Settings saved successfully!"]
  /\ UNCHANGED <<cache, now, calls, result, prev, cleared,
                 registries, cacheTTL, utipEnabled, utipCalls, stats, requests>>

\* loadDefaults(), confirmed: currentSettings = { ...this.defaultSettings }.
LoadDefaults ==
  /\ input.installed
  /\ output' = [output EXCEPT !.customRegistries = output.defaultRegistries,
                              !.shared = TRUE, !.message = "Default settings loaded"]
  /\ UNCHANGED <<cache, now, calls, result, prev, cleared, input,
                 registries, cacheTTL, utipEnabled, utipCalls, stats, requests>>

\* resetAllSettings(), confirmed: the storage is cleared and currentSettings
\* = { ...this.defaultSettings }.
ResetAllSettings ==
  /\ input.installed
  /\ input' = EmptyStorage(input.installed)
  /\ output' = [output EXCEPT !.customRegistries = output.defaultRegistries,
                              !.shared = TRUE, !.message = "All settings reset to defaults"]
  /\ UNCHANGED <<cache, now, calls, result, prev, cleared,
                 registries, cacheTTL, utipEnabled, utipCalls, stats, requests>>

InitOptions ==
  /\ registries = InitialRegistries
  /\ cacheTTL = InitialCacheTTL
  /\ utipEnabled = TRUE
  /\ cache = <<>>
  /\ now = 0
  /\ calls = [s \in Callers |-> IdleCall]
  /\ result = NoResult
  /\ prev = NoPrev
  /\ cleared = FALSE
  /\ utipCalls = NoUTIPCalls
  /\ stats = ZeroStats(0)
  /\ requests = NoRequests
  /\ input = EmptyStorage(FALSE)
  /\ output = NewOptions

NextOptions ==
  \/ OnInstalled
  \/ LoadSettings
  \/ \E url \in TypedURLs : AddRegistry(url)
  \/ \E index \in 0..(MaxRegistries - 1) : RemoveRegistry(index)
  \/ \E index \in 0..(MaxRegistries - 1), newUrl \in TypedURLs : UpdateRegistry(index, newUrl)
  \/ SaveSettings
  \/ LoadDefaults
  \/ ResetAllSettings

SpecOptions == InitOptions /\ [][NextOptions]_vars

(***************************************************************************)
(* The configuration of the UT-IP encoder: the constructor,                *)
(* setCustomMapping, exportConfig and importConfig.  A symbol map is the   *)
(* sequence of its entries in the order of Object.entries.                 *)
(***************************************************************************)

\* The keys of a map.
MapKeys(map) == {map[i][1] : i \in DOMAIN map}

\* map[key] for a key of the map.
MapGet(map, key) == map[CHOOSE i \in DOMAIN map : map[i][1] = key][2]

\* The entries in the order in which an object enumerates its keys: the
\* keys that are digits in ascending order, then the others in the order
\* in which they were set.
Enumerated(entries) ==
  LET IsDigitEntry(entry) == entry[1] \in {DigitCode(d) : d \in 0..9}
      IsOtherEntry(entry) == ~IsDigitEntry(entry)
      digits == {entry[1] : entry \in {entries[i] : i \in DOMAIN entries}} \cap
                  {DigitCode(d) : d \in 0..9}
      RECURSIVE Ascending(_)
      Ascending(keys) ==
        IF keys = {} THEN <<>>
        ELSE LET least == CHOOSE k \in keys : \A other \in keys : k <= other
             IN  <<<<least, MapGet(entries, least)>>>> \o Ascending(keys \ {least})
  IN  Ascending(digits) \o SelectSeq(entries, IsOtherEntry)

\* { ...map, ...customMap }: the keys of map with the values customMap gives
\* them, then the keys only customMap has.
Spread(map, customMap) ==
  LET IsNew(entry) == entry[1] \notin MapKeys(map)
  IN  Enumerated([i \in DOMAIN map |->
                    IF map[i][1] \in MapKeys(customMap)
                    THEN <<map[i][1], MapGet(customMap, map[i][1])>>
                    ELSE map[i]]
                 \o SelectSeq(customMap, IsNew))

\* this.reverseMap as the forEach over Object.entries(this.symbolMap)
\* leaves it: under each symbol the last key written for it.
ReverseMapOf(map) ==
  [symbol \in {map[i][2] : i \in DOMAIN map} |->
     map[CHOOSE i \in DOMAIN map :
           /\ map[i][2] = symbol
           /\ \A j \in DOMAIN map : map[j][2] = symbol => j <= i][1]]

\* new UTIPEncoder(options), with options.symbolMap given or not (<<>>),
\* and with securityLevel and rotationKey given or 0 for not given.
NewEncoder(options) ==
  LET map == IF options.symbolMap # <<>> THEN options.symbolMap ELSE symbolMap
  IN  [symbolMap |-> map, reverseMap |-> ReverseMapOf(map),
       securityLevel |-> IF options.securityLevel # 0 THEN options.securityLevel ELSE 1,
       rotationKey |-> IF options.rotationKey # 0 THEN options.rotationKey ELSE 0]

\* setCustomMapping(customMap).
setCustomMapping(encoder, customMap) ==
  LET map == Spread(encoder.symbolMap, customMap)
  IN  [encoder EXCEPT !.symbolMap = map, !.reverseMap = ReverseMapOf(map)]

\* exportConfig().
exportConfig(encoder) ==
  [symbolMap |-> encoder.symbolMap, securityLevel |-> encoder.securityLevel,
   rotationKey |-> encoder.rotationKey, version |-> "1.0.0"]

\* importConfig(config): each field is taken when it is truthy.
importConfig(encoder, config) ==
  LET mapped == setCustomMapping(encoder, config.symbolMap)
  IN  [mapped EXCEPT
         !.securityLevel = IF config.securityLevel # 0 THEN config.securityLevel ELSE @,
         !.rotationKey = IF config.rotationKey # 0 THEN config.rotationKey ELSE @]

\* The default map with another symbol for '3', so that no two keys share
\* a symbol.
InjectiveMap == [symbolMap EXCEPT ![4] = <<DigitCode(3), 9672>>]

\* The default map with one more key, the letter a.
ExtendedMap == symbolMap \o <<<<97, 9670>>>>

\* The options of the encoders: no map, a map with the twelve keys, and a
\* map with thirteen.
EncoderOptions ==
  {[symbolMap |-> map, securityLevel |-> level, rotationKey |-> key] :
     map \in {<<>>, InjectiveMap, ExtendedMap}, level \in {0, 2, 3}, key \in {0, 7}}

InitConfig ==
  /\ registries = InitialRegistries
  /\ cacheTTL = InitialCacheTTL
  /\ utipEnabled = TRUE
  /\ cache = <<>>
  /\ now = 0
  /\ calls = [s \in Callers |-> IdleCall]
  /\ result = NoResult
  /\ prev = NoPrev
  /\ cleared = FALSE
  /\ utipCalls = NoUTIPCalls
  /\ stats = ZeroStats(0)
  /\ requests = NoRequests
  /\ input \in {[A |-> NewEncoder(optionsA), B |-> NewEncoder(optionsB)] :
                  optionsA \in EncoderOptions, optionsB \in EncoderOptions}
  /\ output = NoOutput

\* B.importConfig(A.exportConfig()): output is B afterwards.
ApplyImportConfig ==
  /\ output = NoOutput
  /\ output' = importConfig(input.B, exportConfig(input.A))
  /\ UNCHANGED <<cache, now, calls, result, prev, cleared, input,
                 registries, cacheTTL, utipEnabled, utipCalls, stats, requests>>

NextConfig == ApplyImportConfig

SpecConfig == InitConfig /\ [][NextConfig]_vars

(***************************************************************************)
(* The claims.                                                             *)
(***************************************************************************)

Settled == result.pc = "done"

C2_RepeatWithinTTL ==
  (Settled /\ result.repeat) =>
    /\ result.outcome = "success"
    /\ result.url = result.repeatURL
    /\ result.lookups = <<>>

\* The second of two consecutive calls for the default-mapped address, the
\* first of which wrote the cache after the clock had advanced.
C2_Witness ==
  /\ Settled /\ result.repeat /\ result.address = AddrDefault
  /\ result.url = <<"https://two.bob", "/", "d">>
  /\ result.lookups = <<>>
  /\ cache[AddrDefault].timestamp > 0

\* C3: a call that starts with an expired entry (age >= TTL) under its key
\* does not return from the cache: it parses the address and, the address
\* being valid, looks up the registries again from the first one.
C3_ExpiredEntryIsNotUsed ==
  (Settled /\ result.startStale) =>
    /\ ~result.fromCache
    /\ result.parses = 1
    /\ parseAddress(result.address).ok =>
         (result.lookups # <<>> /\ result.lookups[1] = 1)

\* A call that found an entry of age exactly the TTL and resolved afresh.
C3_Witness ==
  /\ Settled /\ result.startStale /\ result.outcome = "success"
  /\ result.lookups = <<1>>
  /\ result.writes = 1
  /\ now = cacheTTL

\* The lookups of one call are in the configured order, the next registry
\* is asked only after the one before replied absent or raised, and the
\* record used is the one of the first registry that returned one.
OrderedLookups(call) ==
  LET asked == Len(call.lookups)
      replied == Len(call.replies)
  IN  /\ \A j \in DOMAIN call.lookups : call.lookups[j] = j
      /\ asked <= Len(registries)
      /\ replied \in {asked, asked - 1}
      /\ \A j \in DOMAIN call.replies :
           /\ j < asked => call.replies[j] \in {"absent", "raised"}
           /\ call.replies[j] = "found" =>
                /\ j = asked
                /\ call.networkInfo = registries[j][parseAddress(call.address).network]
      /\ call.networkInfo # NoRecord => (replied = asked /\ call.replies[replied] = "found")

\* C4: registry fallback ordering, in every call in flight and settled.
C4_RegistryFallbackOrder ==
  /\ OrderedLookups(result)
  /\ \A s \in DOMAIN calls : OrderedLookups(calls[s])

\* R1 has no record for bob and R2 has: R1 was asked first and the URL is
\* R2's mapping.
C4_Witness ==
  /\ Settled /\ result.address = AddrDefault
  /\ result.lookups = <<1, 2>> /\ result.replies = <<"absent", "found">>
  /\ result.networkInfo = RegistryTwo[<<"b", "o", "b">>]
  /\ result.url = <<"https://two.bob", "/", "d">>

\* What a call does after registry j raised: it asks the next registry,
\* or after the last one ends with Network not found.
RaiseIsAbsent(call) ==
  \A j \in DOMAIN call.replies :
    call.replies[j] = "raised" =>
      /\ call.error.message # "registry failure"
      /\ j < Len(registries) => (Len(call.lookups) > j /\ call.lookups[j + 1] = j + 1)
      /\ (j = Len(registries) /\ call.pc = "done") =>
           (call.outcome = "error" /\ call.error.message = "Network not found")

\* C5: a registry whose lookup raises counts as absent for that registry
\* only: its error does not reach the caller and the next registry is asked.
C5_RaisingRegistryIsAbsent ==
  /\ RaiseIsAbsent(result)
  /\ \A s \in DOMAIN calls : RaiseIsAbsent(calls[s])

\* The first registry raised and the second one's record resolved the call.
C5_Witness ==
  /\ Settled /\ result.replies = <<"raised", "found">>
  /\ result.outcome = "success"
  /\ result.url = <<"https://two.akc/b">>

\* C6: a valid address with no live entry for which no registry returned a
\* record fails with Network not found, naming the network, after every
\* registry has been asked; and that error is thrown in no other case.
C6_NetworkNotFound ==
  /\ (/\ Settled /\ ~result.startLive /\ parseAddress(result.address).ok
      /\ \A j \in DOMAIN result.replies : result.replies[j] \in {"absent", "raised"})
     => /\ result.outcome = "error"
        /\ result.error = Error("Network not found", parseAddress(result.address).network)
        /\ result.lookups = [j \in DOMAIN registries |-> j]
        /\ Len(result.replies) = Len(registries)
  /\ (Settled /\ result.error.message = "Network not found")
     => /\ Len(result.replies) = Len(registries)
        /\ \A j \in DOMAIN result.replies : result.replies[j] \in {"absent", "raised"}

\* utopia.zzz//.b, which no registry has, failed after both were asked.
C6_Witness ==
  /\ Settled /\ result.address = AddrUnknown
  /\ result.replies = <<"absent", "absent">>
  /\ result.error = Error("Network not found", <<"z", "z", "z">>)

\* C7: for every address that parseAddress rejects, resolve fails with an
\* InvalidAddress error in every cache state, calls no registry and writes
\* no cache entry.
C7_InvalidAddressAlwaysRejected ==
  (Settled /\ ~parseAddress(result.address).ok) =>
    /\ result.outcome = "error"
    /\ result.error.message \in InvalidAddress
    /\ result.lookups = <<>>
    /\ result.writes = 0

\* C8: a call that ends in an error has written nothing and its last step
\* leaves the cache as it was; the only steps that change the cache are
\* the write of a call that returns successfully and clearCache.
C8_ErrorLeavesCache ==
  [][/\ result'.outcome = "error" => (cache' = cache /\ result'.writes = 0)
     /\ cache' # cache =>
          \/ result = NoResult /\ result'.outcome = "success" /\ result'.writes = 1
          \/ cache' = <<>> /\ calls' = calls /\ result' = result]_vars

\* A call failed with every kind of error while its key had an entry:
\* here Network not found for an address whose entry had expired.
C8_Witness ==
  /\ Settled /\ result.outcome = "error" /\ result.startStale
  /\ result.error.message = "Network not found"
  /\ CacheKey(result.address) \in DOMAIN cache

\* The lowercase forms of the addresses.
LowercasedAddresses == {ToLowerCase(a) : a \in Addresses}

\* C9: a call that succeeds after a miss leaves under lowercase(address)
\* the entry (URL returned, time of the write), whatever entry was there
\* before; every key of the cache is the lowercase of an address and is
\* its own lowercase.
C9_SuccessWritesEntry ==
  /\ (Settled /\ result.outcome = "success" /\ ~result.startLive) =>
       /\ result.writes = 1
       /\ ToLowerCase(result.address) \in DOMAIN cache
       /\ cache[ToLowerCase(result.address)] = [url |-> result.url, timestamp |-> now]
  /\ \A k \in DOMAIN cache : k \in LowercasedAddresses /\ ToLowerCase(k) = k

\* The upper-case address resolved afresh over an expired entry: the new
\* entry is under the lower-case key with the time of the write.
C9_Witness ==
  /\ Settled /\ result.address = AddrUpper /\ result.startStale
  /\ result.outcome = "success"
  /\ DOMAIN cache = {AddrPlain}
  /\ cache[AddrPlain] = [url |-> result.url, timestamp |-> MaxTime]

\* What the claim says directResolve returns on a subdomain match.
SubdomainMatchURL(networkInfo, parsed) ==
  networkInfo.subdomains[parsed.subdomain]
    \o (IF parsed.resourcePath # <<>> /\ parsed.resourcePath # <<"/">>
        THEN parsed.resourcePath ELSE <<>>)
    \o (IF parsed.query # <<>> THEN <<"?">> \o parsed.query ELSE <<>>)
    \o (IF parsed.fragment # <<>> THEN <<"#">> \o parsed.fragment ELSE <<>>)

\* C10: when the descriptor's subdomain is a key of the record's subdomains
\* map, directResolve returns baseURL, then resourcePath unless it is empty
\* or '/', then '?' + query unless the query is empty, then '#' + fragment
\* unless the fragment is empty.
C10_SubdomainMatch ==
  (/\ output # NoOutput
   /\ input.parsed.subdomain # NullSubdomain
   /\ input.parsed.subdomain \in DOMAIN input.networkInfo.subdomains)
  => /\ output.ok
     /\ output.url = SubdomainMatchURL(input.networkInfo, input.parsed)

\* .b/?x#t against a record that maps .b: the '/' is dropped, the query
\* and the fragment are kept.
C10_Witness ==
  /\ output # NoOutput
  /\ input.parsed.path = <<".", "b", "/", "?", "x", "#", "t">>
  /\ input.networkInfo = RegistryOne[<<"a", "k", "c">>]
  /\ output.url = <<"https://one.akc/b", "?", "x", "#", "t">>

\* The record lists no resolver that starts with http.
NoRemoteEndpoint(networkInfo) ==
  \A i \in DOMAIN networkInfo.resolvers : ~StartsWithHttp(networkInfo.resolvers[i])

\* C11: for every record without an http/https resolver, whatever else its
\* resolver list holds, resolveResource gives what direct resolution
\* against the record gives: its URL when the subdomain or the defaultURL
\* maps the descriptor, so a record whose subdomains map has the
\* descriptor's subdomain resolves.
C11_NoRemoteEndpointMapsDirectly ==
  (output # NoOutput /\ NoRemoteEndpoint(input.networkInfo)) =>
    LET direct == directResolve(input.networkInfo, input.parsed)
    IN  /\ direct.ok => (output.kind = "return" /\ output.url = direct.url)
        /\ (/\ input.parsed.subdomain # NullSubdomain
            /\ input.parsed.subdomain \in DOMAIN input.networkInfo.subdomains)
           => output.kind = "return"

\* The message of the error directResolve throws.
ResourceNotFound == "No resolver found for path"

\* C12: when a record is found and direct resolution against it finds
\* neither a matching subdomain nor a defaultURL, resolve fails with the
\* error of direct resolution, ResourceNotFound, which no failed resolver
\* endpoint produces.
C12_ResourceNotFound ==
  /\ (/\ Settled /\ ~result.fromCache /\ result.networkInfo # NoRecord
      /\ NoRemoteEndpoint(result.networkInfo)
      /\ ~directResolve(result.networkInfo, parseAddress(result.address)).ok)
     => /\ result.outcome = "error"
        /\ result.error.message = ResourceNotFound
  /\ (Settled /\ result.fetches # <<>> /\ result.outcome = "error")
     => result.error.message # ResourceNotFound

\* The endpoints a call has fetched are the http resolvers of its record in
\* list order, none skipped: an endpoint is fetched after every http
\* resolver before it has been.
EndpointsInListOrder(call) ==
  \A j \in DOMAIN call.fetches :
    /\ StartsWithHttp(call.networkInfo.resolvers[call.fetches[j]])
    /\ j > 1 => call.fetches[j - 1] < call.fetches[j]
    /\ \A i \in 1..(call.fetches[j] - 1) :
         StartsWithHttp(call.networkInfo.resolvers[i]) =>
           \E h \in 1..(j - 1) : call.fetches[h] = i

\* C13: a reply of an http endpoint without a url field is a failure of
\* that endpoint: the endpoints are tried in list order, and the value of
\* the missing field is neither returned to the caller as a successful
\* resolution nor held by a cache entry.
C13_ReplyWithoutUrlIsFailure ==
  /\ EndpointsInListOrder(result)
  /\ \A s \in DOMAIN calls : EndpointsInListOrder(calls[s])
  /\ (Settled /\ result.outcome = "success") => result.url # Undefined
  /\ \A k \in DOMAIN cache : cache[k].url # Undefined

\* C14: when the descriptor has no subdomain, or its subdomain is not a key
\* of the record's subdomains map, and the record has a defaultURL,
\* directResolve returns exactly defaultURL + '/' + the full raw path.
C14_DefaultURLFallback ==
  (/\ output # NoOutput
   /\ \/ input.parsed.subdomain = NullSubdomain
      \/ input.parsed.subdomain \notin DOMAIN input.networkInfo.subdomains
   /\ input.networkInfo.defaultURL # <<>>)
  => /\ output.ok
     /\ output.url = input.networkInfo.defaultURL \o <<"/">> \o input.parsed.path

\* .m/p?x#t against the record of bob, which maps .b only: the URL is the
\* defaultURL, a slash and the whole path, subdomain included.
C14_Witness ==
  /\ output # NoOutput
  /\ input.networkInfo = RegistryTwo[<<"b", "o", "b">>]
  /\ input.parsed.subdomain = <<".", "m">>
  /\ output.url = <<"https://two.bob", "/", ".", "m", "/", "p", "?", "x", "#", "t">>

\* No position occurs twice in a list of registry or resolver indices.
NoDuplicates(indices) ==
  \A i, j \in DOMAIN indices : i # j => indices[i] # indices[j]

\* What one call has looked up and fetched so far.
NoRetries(call) ==
  /\ NoDuplicates(call.lookups)
  /\ \A j \in DOMAIN call.lookups : call.lookups[j] \in DOMAIN registries
  /\ NoDuplicates(call.fetches)
  /\ \A j \in DOMAIN call.fetches : call.fetches[j] \in DOMAIN call.networkInfo.resolvers

\* C17: within one resolve call every configured registry is looked up at
\* most once and every resolver endpoint of the record is fetched at most
\* once, whatever the registries and the endpoints reply.
C17_NoRetries ==
  /\ NoRetries(result)
  /\ \A s \in DOMAIN calls : NoRetries(calls[s])

\* The first registry had the record of www and both http endpoints of the
\* record failed: each was fetched once, in list order, and the call ended
\* in an error.
C17_Witness ==
  /\ Settled /\ result.address = AddrRemote
  /\ result.lookups = <<1>>
  /\ result.fetches = <<2, 3>>
  /\ result.error.message = "All resolvers failed for network"

\* C18: the first resolve call to start after clearCache has run, for a
\* valid address, does not return from the cache: it looks the network up
\* again, from the first registry, also when other calls were in flight
\* when the cache was cleared.
C18_FreshQueryAfterClear ==
  (Settled /\ result.afterClear /\ parseAddress(result.address).ok) =>
    /\ ~result.fromCache
    /\ result.lookups # <<>>
    /\ result.lookups[1] = 1

\* The edges of the state machine of one call between its awaits: Start,
\* CacheCheck and Parse are the synchronous head of resolve ("idle" to
\* "lookup"); "lookup" is RegistryLookup; "mapping" and "endpoint" are
\* Mapping; "cachewrite" is CacheWrite; back to "idle" is Done.
StateMachineEdges ==
  {<<"idle", "lookup">>, <<"lookup", "mapping">>, <<"lookup", "idle">>,
   <<"mapping", "endpoint">>, <<"mapping", "cachewrite">>, <<"mapping", "idle">>,
   <<"endpoint", "cachewrite">>, <<"endpoint", "idle">>, <<"cachewrite", "idle">>}

\* One step as seen from slot s: the position moves along an edge, and a
\* call that leaves flight settles in that step, once, as a success from
\* CacheWrite and as an error from anywhere else.
StateMachineStep(s) ==
  /\ calls'[s].pc # calls[s].pc => <<calls[s].pc, calls'[s].pc>> \in StateMachineEdges
  /\ (calls[s].pc # "idle" /\ calls'[s].pc = "idle") =>
       /\ result = NoResult
       /\ result'.pc = "done"
       /\ result'.address = calls[s].address
       /\ result'.outcome = IF calls[s].pc = "cachewrite" THEN "success" ELSE "error"

\* The path a settled call has taken is one of the five of the state
\* machine: HIT, Parse Fail, NotFound, Mapping Fail, or CacheWrite.
TerminalPath(call) ==
  call.pc = "done" =>
    \/ /\ call.fromCache /\ call.outcome = "success"
       /\ call.parses = 0 /\ call.lookups = <<>> /\ call.writes = 0
    \/ /\ ~call.fromCache /\ call.outcome = "error"
       /\ call.error.message \in InvalidAddress
       /\ call.parses = 1 /\ call.lookups = <<>> /\ call.writes = 0
    \/ /\ ~call.fromCache /\ call.outcome = "error"
       /\ call.error.message = "Network not found"
       /\ call.parses = 1 /\ call.lookups # <<>> /\ call.networkInfo = NoRecord
       /\ call.fetches = <<>> /\ call.writes = 0
    \/ /\ ~call.fromCache /\ call.outcome = "error"
       /\ call.error.message = "All resolvers failed for network"
       /\ call.parses = 1 /\ call.networkInfo # NoRecord /\ call.writes = 0
    \/ /\ ~call.fromCache /\ call.outcome = "success"
       /\ call.parses = 1 /\ call.networkInfo # NoRecord /\ call.writes = 1

\* C15: every resolve call follows the state machine (cache check, then on
\* a miss parse, registry lookup, mapping, cache write), settles exactly
\* once as Done(success) or Done(error), and, when every awaited lookup
\* and endpoint call returns or raises, every call in flight settles.
C15_StateMachineTerminates ==
  /\ [](TerminalPath(result))
  /\ [][\A s \in DOMAIN calls : StateMachineStep(s)]_vars
  /\ \A s \in Callers : (calls[s].pc # "idle") ~> (calls[s].pc = "idle")

\* A call that went through every position: a lookup, the mapping, two
\* endpoint calls of which the second answered, and the cache write.
C15_Witness ==
  /\ Settled /\ result.outcome = "success"
  /\ result.lookups = <<1>> /\ result.fetches = <<2, 3>>
  /\ result.url = RemoteURL /\ result.writes = 1

\* C16: no resolve call blocks indefinitely: every call in flight settles,
\* also when a registry lookup or an endpoint call never answers.
C16_NoCallBlocks ==
  \A s \in Callers : (calls[s].pc # "idle") ~> (calls[s].pc = "idle")

\* C19: with resolve calls interleaving at their awaits the cache is never
\* corrupted: its keys are lowercase (one entry for all spellings of an
\* address), and an entry appears or changes only in the step in which a
\* call for an address with that lowercase form completes successfully,
\* and then holds the URL that call returns.  So when two callers both
\* miss and both query the registries, the entry is the result of one.
C19_CacheNeverCorrupted ==
  [][\A k \in DOMAIN cache' :
       /\ ToLowerCase(k) = k
       /\ (k \notin DOMAIN cache \/ cache'[k] # cache[k]) =>
            /\ result = NoResult
            /\ result'.pc = "done" /\ result'.outcome = "success"
            /\ ToLowerCase(result'.address) = k
            /\ result'.url = cache'[k].url]_vars

\* Two callers missed on two spellings of one address and both queried the
\* registries: the second has completed with the second registry's URL,
\* which is the entry, while the first still holds the first registry's
\* URL and is about to overwrite it.
C19_Witness ==
  /\ Settled /\ result.address = AddrPlain /\ ~result.startLive
  /\ result.url = <<"https://two.akc/b">>
  /\ cache[AddrPlain].url = result.url
  /\ calls[1].pc = "cachewrite" /\ calls[1].address = AddrUpper
  /\ ~calls[1].startLive /\ calls[1].url = <<"https://one.akc/b">>

\* The characters the grammar allows in a network: letters of either case,
\* digits and the hyphen.
IsGrammarNetworkChar(ch) ==
  \/ \E i \in DOMAIN LowerLetters : ch \in {LowerLetters[i], UpperLetters[i]}
  \/ ch \in Digits
  \/ ch = "-"

\* The lengths n for which the address reads utopia. (in any case), then n
\* network characters, then //, then a path.
GrammarSplits(address) ==
  {n \in 1..Len(address) :
     /\ Len(address) >= 7 + n + 2
     /\ ToLowerCase(SubSeq(address, 1, 6)) = UtopiaPrefix
     /\ address[7] = "."
     /\ \A i \in 8..(7 + n) : IsGrammarNetworkChar(address[i])
     /\ address[8 + n] = "/" /\ address[9 + n] = "/"}

\* The rules for a network: 3 to 63 characters of the class, no hyphen at
\* either end.
NetworkRulesHold(network) ==
  /\ Len(network) >= 3 /\ Len(network) <= 63
  /\ \A i \in DOMAIN network : IsGrammarNetworkChar(network[i])
  /\ network[1] # "-" /\ network[Len(network)] # "-"

\* C20: parseAddress fails with an InvalidAddress error for every string
\* that does not match utopia.<network>//<path>, for every network shorter
\* than 3 or longer than 63 characters and for every network with a hyphen
\* at either end; a descriptor it returns has a network that keeps the
\* rules.
C20_InvalidAddressRejected ==
  output # NoOutput =>
    /\ (\/ GrammarSplits(input.address) = {}
        \/ \E n \in GrammarSplits(input.address) :
             ~NetworkRulesHold(SubSeq(input.address, 8, 7 + n)))
       => (~output.ok /\ output.error.message \in InvalidAddress)
    /\ output.ok => NetworkRulesHold(output.network)

\* A network of 64 characters between utopia. and // is rejected for its
\* length.
C20_Witness ==
  /\ output # NoOutput
  /\ input.address
       = LowerUtopia \o Repeat("a", MaxNetworkLength + 1) \o <<"/", "/", ".", "b">>
  /\ ~output.ok
  /\ output.error = Error("Invalid network name length", Repeat("a", MaxNetworkLength + 1))

\* subdomain + resourcePath + ('?' + query if present) + ('#' + fragment
\* if present).
Reassemble(descriptor) ==
  descriptor.subdomain \o descriptor.resourcePath
    \o (IF descriptor.query # <<>> THEN <<"?">> \o descriptor.query ELSE <<>>)
    \o (IF descriptor.fragment # <<>> THEN <<"#">> \o descriptor.fragment ELSE <<>>)

\* The path of an address whose network is n characters long.
PathOf(address, n) == SubSeq(address, 8 + n + 2, Len(address))

Reassembles(path) ==
  LET fragmentAt == IndexOf(path, "#")
      beforeFragment == IF fragmentAt # 0 THEN SubSeq(path, 1, fragmentAt - 1) ELSE path
      queryAt == IndexOf(beforeFragment, "?")
  IN  /\ path # <<>> /\ path[1] \in {".", "/"}
      /\ fragmentAt # 0 => fragmentAt < Len(path)
      /\ queryAt # 0 => queryAt < Len(beforeFragment)

Contains(text, ch) == \E i \in DOMAIN text : text[i] = ch

\* C22: every descriptor parseAddress returns has exactly one of: a
\* subdomain is present; resourcePath starts with '/' or is empty.  Neither
\* its query nor its fragment holds '#' or '?'.
C22_DescriptorInvariant ==
  (output # NoOutput /\ output.ok) =>
    /\ (output.subdomain # NullSubdomain)
         # (output.resourcePath = <<>> \/ output.resourcePath[1] = "/")
    /\ ~Contains(output.query, "#") /\ ~Contains(output.query, "?")
    /\ ~Contains(output.fragment, "#") /\ ~Contains(output.fragment, "?")

\* C22 amended: in every descriptor parseAddress returns the resourcePath
\* starts with '/' or is empty, and it is empty only when a subdomain is
\* present; a subdomain starts with '.' and holds no '/'; the subdomain and
\* the resourcePath hold neither '#' nor '?', and the query holds no '#'.
C22_DescriptorInvariantAmended ==
  (output # NoOutput /\ output.ok) =>
    /\ output.resourcePath = <<>> \/ output.resourcePath[1] = "/"
    /\ output.resourcePath = <<>> => output.subdomain # NullSubdomain
    /\ output.subdomain # NullSubdomain =>
         (output.subdomain[1] = "." /\ ~Contains(output.subdomain, "/"))
    /\ \A ch \in {"#", "?"} :
         ~Contains(output.subdomain, ch) /\ ~Contains(output.resourcePath, ch)
    /\ ~Contains(output.query, "#")

\* utopia.abc//.b#t#t : a subdomain with an empty resourcePath, and a
\* fragment that holds a '#'.
C22_Witness ==
  /\ output # NoOutput /\ output.ok
  /\ input.address = LowerUtopia \o <<"a", "b", "c", "/", "/", ".", "b", "#", "t", "#", "t">>
  /\ output.subdomain = <<".", "b">> /\ output.resourcePath = <<>>
  /\ output.fragment = <<"t", "#", "t">>

\* The positions of the character in the text.
Positions(text, ch) == {i \in DOMAIN text : text[i] = ch}

\* The least position of a non-empty set of positions.
Least(positions) == CHOOSE i \in positions : \A j \in positions : i <= j

\* The text before the first occurrence of the character (all of it when
\* the character does not occur) and the text after it (none then).
BeforeFirst(text, ch) ==
  IF Positions(text, ch) = {} THEN text
  ELSE SubSeq(text, 1, Least(Positions(text, ch)) - 1)

AfterFirst(text, ch) ==
  IF Positions(text, ch) = {} THEN <<>>
  ELSE SubSeq(text, Least(Positions(text, ch)) + 1, Len(text))

\* The stated decomposition of a path, in its order: fragment, then query,
\* then subdomain and resourcePath.
Decomposition(path) ==
  LET beforeFragment == BeforeFirst(path, "#")
      remainder == BeforeFirst(beforeFragment, "?")
      dotted == remainder # <<>> /\ remainder[1] = "."
      slashed == remainder # <<>> /\ remainder[1] = "/"
      upToSlash == BeforeFirst(remainder, "/")
  IN  [fragment |-> AfterFirst(path, "#"),
       query |-> AfterFirst(beforeFragment, "?"),
       subdomain |-> IF dotted THEN upToSlash ELSE NullSubdomain,
       resourcePath |->
         IF dotted THEN SubSeq(remainder, Len(upToSlash) + 1, Len(remainder))
         ELSE IF slashed THEN remainder ELSE <<"/">> \o remainder]

\* C23: the descriptor parseAddress returns has the fragment, the query,
\* the subdomain and the resourcePath of the stated decomposition of the
\* path, in the letter case of the address, and the lowercased network.
C23_PathDecomposition ==
  (output # NoOutput /\ output.ok) =>
    \A n \in GrammarSplits(input.address) :
      LET parts == Decomposition(PathOf(input.address, n))
      IN  /\ output.fragment = parts.fragment
          /\ output.query = parts.query
          /\ output.subdomain = parts.subdomain
          /\ output.resourcePath = parts.resourcePath
          /\ output.network = ToLowerCase(SubSeq(input.address, 8, 7 + n))
          /\ output.path = PathOf(input.address, n)

\* UTOPIA.A-0//X/.b : no subdomain, the resourcePath is the path with a
\* '/' in front and its capital kept, the network is lowercased.
C23_Witness ==
  /\ output # NoOutput /\ output.ok
  /\ input.address = UpperUtopia \o <<"A", "-", "0", "/", "/", "X", "/", ".", "b">>
  /\ output.network = <<"a", "-", "0">>
  /\ output.subdomain = NullSubdomain
  /\ output.resourcePath = <<"/", "X", "/", ".", "b">>

\* The messages of the errors the resolver itself creates.
EngineErrors ==
  InvalidAddress
    \cup {"Network not found", "All resolvers failed for network", ResourceNotFound}

\* C24: the error with which resolve fails is one the resolver itself
\* created; what a registry lookup raises and what a resolver endpoint call
\* raises never reaches the caller.
C24_OnlyEngineErrors ==
  (Settled /\ result.outcome = "error") =>
    /\ result.error.message \in EngineErrors
    /\ result.error.message \notin {"registry failure", "endpoint failure"}

\* Both registries raised: the caller got Network not found for akc, not
\* what the registries raised.
C24_Witness ==
  /\ Settled /\ result.address = AddrPlain
  /\ result.replies = <<"raised", "raised">>
  /\ result.error = Error("Network not found", <<"a", "k", "c">>)

\* C26: UT-IP encoding is reversible: for every valid dotted IPv4 address,
\* every security level and every rotation key, demonstrateEncoding returns,
\* and its decoded is its original.
C26_EncodingIsReversible ==
  (output # NoOutput /\ isValidIP(input.ipAddress)) =>
    /\ ~output.threw
    /\ output.value.decoded = input.ipAddress

\* C25: whenever the resolve call of a resolveWithUTIP call returns,
\* resolveWithUTIP returns a result with the address, the value resolve
\* returned and a timestamp, and the result has the utip field if and only
\* if includeUTIP was true and UT-IP was enabled when the result was built.
C25_ResultCarriesResolution ==
  (output # NoOutput /\ output.call.resolved.outcome = "success") =>
    /\ ~output.settled.threw
    /\ output.settled.unsAddress = output.call.address
    /\ output.settled.resolvedURL = output.call.resolved.url
    /\ output.settled.timestamp # <<>>
    /\ (output.settled.hasUTIP <=> (output.call.includeUTIP /\ output.call.enabled))

\* C28: resolve changes no state other than the cache: no step of a call,
\* whether the call goes on to succeed or to fail, changes the registry
\* list, the records the registries hold or the TTL.
C28_ResolveChangesOnlyCache ==
  [][registries' = registries /\ cacheTTL' = cacheTTL]_vars

\* A call has failed after the resolver loop worked on the record it was
\* given, an earlier call has succeeded, and the registries and the TTL are
\* as the constructor set them.
C28_Witness ==
  /\ result.outcome = "error"
  /\ result.error.message = "All resolvers failed for network"
  /\ result.networkInfo # NoRecord
  /\ prev # NoPrev
  /\ registries = InitialRegistries
  /\ cacheTTL = InitialCacheTTL

\* The URLs resolveResource can return for a record from resolver i on: what
\* directResolve maps the descriptor to, or what an http endpoint answers.
RECURSIVE FreshFrom(_, _, _)
FreshFrom(networkInfo, parsed, i) ==
  LET loop == ResolverLoop(networkInfo, parsed, i)
  IN  IF loop.kind = "return" THEN {loop.url}
      ELSE IF loop.kind = "await"
      THEN {RemoteURL, Undefined} \cup FreshFrom(networkInfo, parsed, loop.index + 1)
      ELSE {}

\* The URLs a resolution of the address that starts with an empty cache can
\* return, whatever the registries and the endpoints reply.
FreshURLs(address) ==
  LET parsed == parseAddress(address)
  IN  IF ~parsed.ok THEN {}
      ELSE UNION {FreshFrom(RegistryLookup(i, parsed.network), parsed, 1) :
                    i \in {j \in DOMAIN registries :
                             RegistryLookup(j, parsed.network) # NoRecord}}

\* C29: resolve is history independent: a call answered from the cache
\* returns a URL that a fresh resolution of that exact address string can
\* return, also when the cached entry was written for an address that
\* differs in the letter case of its path or subdomain.
C29_HistoryIndependence ==
  (Settled /\ result.fromCache) => result.url \in FreshURLs(result.address)

\* C27: the periodic cleanup removes only expired entries and loses no
\* write of a resolve: across every step, of a cleanup or of a resolve
\* between cleanups, an entry whose age is below the TTL stays in the cache
\* with its timestamp or a later one.
C27_CleanupKeepsLiveEntries ==
  [][\A key \in DOMAIN cache :
       now - cache[key].timestamp < ExtensionCacheTTL =>
         /\ key \in DOMAIN cache'
         /\ cache'[key].timestamp >= cache[key].timestamp]_vars

\* A cleanup has deleted an entry older than the TTL while a resolve was
\* awaiting a registry, and has left in the cache a live entry that a
\* resolve wrote before it.
C27_Witness ==
  /\ output # NoOutput
  /\ \E entry \in output.deleted : entry.age > ExtensionCacheTTL
  /\ \E key \in DOMAIN cache : now - cache[key].timestamp < ExtensionCacheTTL
  /\ \E h \in Handlers : requests[h].pc = "fetch"

\* An intercepted request that has been counted in totalResolutions and not
\* yet in successfulResolutions or failedResolutions.
InFlight(request) ==
  request.kind = "request" /\ request.pc \in {"fetch", "cachewrite", "resolved", "rejected"}

\* C30: the extension's statistics are consistent in every reachable state,
\* under every interleaving of request handlers and resetStats messages:
\* successfulResolutions + failedResolutions <= totalResolutions, with
\* equality when no counted request is in flight.
C30_StatsConsistent ==
  /\ stats.successfulResolutions + stats.failedResolutions <= stats.totalResolutions
  /\ (\A h \in Handlers : ~InFlight(requests[h])) =>
       stats.successfulResolutions + stats.failedResolutions = stats.totalResolutions

\* C31: when the settings the request listener reads have enabled or
\* autoRedirect off, the listener returns {} (no redirect) in that very
\* step, without calling the resolver, and the step leaves the statistics,
\* the cache and every other handler as they were.
C31_DisabledRequestIsLeftAlone ==
  [][\A h \in Handlers :
       (/\ requests[h].pc = "settings"
        /\ requests'[h].settings # NoSettings
        /\ (~requests'[h].settings.enabled \/ ~requests'[h].settings.autoRedirect)) =>
         /\ requests'[h].pc = "idle"
         /\ requests'[h].returned = "{}"
         /\ requests'[h].fetches = <<>>
         /\ requests'[h].parsed = NoDescriptor
         /\ stats' = stats
         /\ cache' = cache
         /\ \A g \in Handlers \ {h} : requests'[g] = requests[g]]_vars

\* A listener has returned {} with enabled on and autoRedirect off, after an
\* earlier request was counted and its URL cached, while the other handler
\* holds that URL from the cache and has not yet counted its success.
C31_Witness ==
  /\ \E h \in Handlers :
       /\ requests[h].returned = "{}"
       /\ requests[h].settings = [enabled |-> TRUE, autoRedirect |-> FALSE]
       /\ \E g \in Handlers \ {h} : requests[g].pc = "resolved" /\ requests[g].fromCache
  /\ stats.totalResolutions = 2
  /\ stats.successfulResolutions = 1
  /\ cache # <<>>

\* The replies with which a registry fails: the fetch or the reading of the
\* body raises, or the status is not ok.
FailedReplies == {"rejects", "not ok", "bad body"}

\* The fetches of one resolve are in the order of the registry list, the
\* next registry is fetched only after the one before failed, the URL
\* returned is the url field of the first ok reply, and the mock table is
\* used, or the resolve fails for lack of a mapping, only after every
\* registry failed.
FallbackOrder(request) ==
  LET asked == Len(request.fetches)
      replied == Len(request.replies)
      settled == request.pc \in {"cachewrite", "resolved", "rejected"}
      mock == mockResolve(request.parsed)
  IN  request.parsed # NoDescriptor =>
        /\ asked \in 1..Len(ExtensionRegistries)
        /\ \A j \in 1..asked : request.fetches[j] = j
        /\ replied = (IF settled THEN asked ELSE asked - 1)
        /\ \A j \in 1..replied : j < asked => request.replies[j] \in FailedReplies
        /\ request.pc \in {"cachewrite", "resolved"} =>
             IF request.replies[asked] \in FailedReplies
             THEN /\ asked = Len(ExtensionRegistries)
                  /\ ~mock.threw
                  /\ request.url = mock.value
             ELSE request.url = (IF request.replies[asked] = "url"
                                 THEN ExtensionRemoteURL ELSE Undefined)
        /\ request.pc = "rejected" =>
             /\ asked = Len(ExtensionRegistries)
             /\ \A j \in 1..asked : request.replies[j] \in FailedReplies
             /\ mock.threw
             /\ request.error.message = "No resolver found"

\* C32: on a cache miss the extension resolver fetches its registries in
\* list order, returns the url of the first that answers ok, goes on to the
\* next when one raises (in the fetch or in reading the body) or answers not
\* ok, and only after the last one failed uses the mock table, failing when
\* the table has no mapping.
C32_ExtensionFallbackOrder ==
  \A h \in Handlers : FallbackOrder(requests[h])

\* The first registry rejected, the second answered not ok, and the mock
\* table gave the URL of utopia.alice//.photos.
C32_Witness ==
  \E h \in Handlers :
    /\ requests[h].pc = "resolved"
    /\ requests[h].fetches = <<1, 2>>
    /\ requests[h].replies = <<"rejects", "not ok">>
    /\ requests[h].url = <<"https://photos.alice.cloud">>

\* Both registries failed and the mock table has no .docs for alice: the
\* resolve is rejected.
C32_WitnessNoMapping ==
  \E h \in Handlers :
    /\ requests[h].pc = "rejected"
    /\ requests[h].replies = <<"not ok", "rejects">>
    /\ requests[h].error.message = "No resolver found"

\* The first registry's body could not be read and the second one's url is
\* used.
C32_WitnessSecondRegistry ==
  \E h \in Handlers :
    /\ requests[h].pc = "resolved"
    /\ requests[h].replies = <<"bad body", "url">>
    /\ requests[h].url = ExtensionRemoteURL

\* C33: in the extension, cache entries are created only by successful
\* resolution: every step that puts an entry under a key, or changes the
\* URL under it, is the cache write of a resolve whose address has that
\* lowercased form and which resolved to that URL; so every URL that
\* resolve returns from the cache was produced by an earlier successful
\* resolution of such an address.
C33_EntriesComeFromResolution ==
  [][\A key \in DOMAIN cache' :
       (key \notin DOMAIN cache \/ cache'[key].url # cache[key].url) =>
         \E h \in Handlers :
           /\ requests[h].pc = "cachewrite"
           /\ requests'[h].pc = "resolved"
           /\ ToLowerCase(requests[h].address) = key
           /\ cache'[key].url = requests[h].url]_vars

\* A resolve message for utopia.alice//.blog has been answered from the
\* cache with the URL an importData message put there, which no registry
\* and no mock table gives.
C33_ImportedURLIsReturned ==
  \E h \in Handlers :
    /\ requests[h].pc = "resolved"
    /\ requests[h].fromCache
    /\ requests[h].fetches = <<>>
    /\ requests[h].url = ForeignURL

\* C36: for every network name over [a-z0-9-], validateNetworkName accepts
\* the name exactly when parseAddress accepts 'utopia.' + name + '//', and
\* the parser then returns that name as the network.
C36_ValidateAgreesWithParse ==
  output # NoOutput =>
    /\ (output.valid <=> output.parsed.ok)
    /\ output.parsed.ok => output.parsed.network = input.network

\* Both accepted a name of 63 characters with a hyphen next to its end.
C36_Witness ==
  /\ output # NoOutput
  /\ output.valid /\ output.parsed.ok
  /\ Len(input.network) = MaxNetworkLength
  /\ input.network[MaxNetworkLength - 1] = "-"

\* Both rejected a name: one of 64 characters, and one that ends in a hyphen.
C36_WitnessRejected ==
  /\ output # NoOutput
  /\ ~output.valid /\ ~output.parsed.ok
  /\ input.network \in {Repeat("a", MaxNetworkLength + 1), <<"a", "0", "-">>}

\* C34: registration is effective: a network whose registerNetwork has
\* succeeded is returned by the registry's lookup, owned by the identity
\* that registered it; a later command on that network does not fail with
\* network not found; and a second registerNetwork of the name is rejected
\* as already registered.
C34_RegistrationIsEffective ==
  /\ \A network \in output.registered :
       /\ DHTLookup(network) # NoRecord
       /\ DHTLookup(network).owner = input.did
  /\ (output.last # NoOutput /\ output.wasRegistered) =>
       /\ output.last.message # "Network not found"
       /\ output.last.command = "register" =>
            (output.last.exit = 1 /\ output.last.message = "already registered")

\* After uns register mine succeeded, uns subdomain add mine .webapp has
\* failed with network not found.
C34_AddAfterRegisterFails ==
  /\ output.last # NoOutput
  /\ output.wasRegistered
  /\ output.last.command = "subdomain add"
  /\ output.last.network = <<"m", "i", "n", "e">>
  /\ output.last.subdomain = <<".", "w", "e", "b", "a", "p", "p">>
  /\ output.last.exit = 1
  /\ output.last.message = "Network not found"

\* uns register mine has succeeded a second time.
C34_SecondRegisterSucceeds ==
  /\ output.last # NoOutput
  /\ output.wasRegistered
  /\ output.last.command = "register"
  /\ output.last.exit = 0

\* C35: addSubdomain and removeSubdomain change the subdomains of a network
\* only when the registry has the network and its owner is the DID of the
\* identity, addSubdomain only for a key that begins with a dot; a command
\* whose guard fails sends no update to the registry; and every key of the
\* subdomains of the record a command holds begins with a dot.
C35_SubdomainWritesAreGuarded ==
  LET last == output.last
      record == DHTLookup(last.network)
      guarded == /\ input # NoIdentity
                 /\ record # NoRecord
                 /\ record.owner = input.did
                 /\ last.command = "subdomain add" => StartsWith(last.subdomain, ".")
  IN  (last # NoOutput /\ last.command \in {"subdomain add", "subdomain remove"}) =>
        /\ (last.changed \/ last.sent = "update") => guarded
        /\ ~guarded => (last.sent = "none" /\ last.networkInfo = NoRecord)
        /\ last.networkInfo # NoRecord =>
             \A sd \in DOMAIN last.networkInfo.subdomains : StartsWith(sd, ".")

\* The owner of alice has added .webapp to the record the command held.
C35_Witness ==
  /\ output.last # NoOutput
  /\ output.last.command = "subdomain add"
  /\ output.last.changed
  /\ output.last.network = <<"a", "l", "i", "c", "e">>
  /\ DOMAIN output.last.networkInfo.subdomains =
       {<<".", "b", "l", "o", "g">>, <<".", "p", "h", "o", "t", "o", "s">>,
        <<".", "w", "e", "b", "a", "p", "p">>}

\* The owner of alice has removed .blog from the record the command held.
C35_WitnessRemove ==
  /\ output.last # NoOutput
  /\ output.last.command = "subdomain remove"
  /\ output.last.changed
  /\ DOMAIN output.last.networkInfo.subdomains = {<<".", "p", "h", "o", "t", "o", "s">>}

\* Another identity's subdomain add on alice was refused and sent nothing.
C35_WitnessRefused ==
  /\ output.last # NoOutput
  /\ output.last.command = "subdomain add"
  /\ output.last.message = "You don't own network"
  /\ output.last.sent = "none"
  /\ ~output.last.changed

\* C37: the extension's configured registry list is never empty: in every
\* state reachable from installation through loadSettings, addRegistry,
\* removeRegistry, updateRegistry, saveSettings, loadDefaults and
\* resetAllSettings, customRegistries of the page's settings holds at least
\* one URL.
C37_RegistryListNeverEmpty ==
  Len(output.customRegistries) >= 1

\* The stored list is never empty either, once it is set.
C37_StoredListNeverEmpty ==
  input.set => Len(input.customRegistries) >= 1

\* The page refused to save the empty list it had loaded after the
\* installation.
C37_EmptyListLoaded ==
  /\ input = [installed |-> TRUE, set |-> TRUE, customRegistries |-> <<>>]
  /\ output.customRegistries = <<>>
  /\ output.message = "At least one registry is required"

\* A symbol map as the set of its entries: two maps are equal when they
\* have the same keys with the same symbols.
SameMap(map, other) ==
  {map[i] : i \in DOMAIN map} = {other[i] : i \in DOMAIN other}

\* C38: after B.importConfig(A.exportConfig()), B's symbolMap,
\* securityLevel and rotationKey equal A's, also when A's rotationKey is 0,
\* and B's reverseMap is the inverse of its symbolMap: it gives back the
\* key of every entry.
C38_ConfigRoundTrips ==
  output # NoOutput =>
    /\ SameMap(output.symbolMap, input.A.symbolMap)
    /\ output.securityLevel = input.A.securityLevel
    /\ output.rotationKey = input.A.rotationKey
    /\ \A i \in DOMAIN output.symbolMap :
         output.reverseMap[output.symbolMap[i][2]] = output.symbolMap[i][1]

\* A's rotationKey is 0 and B has kept its own rotationKey 7.
C38_RotationKeyKept ==
  /\ output # NoOutput
  /\ input.A.rotationKey = 0
  /\ output.rotationKey = 7
  /\ SameMap(output.symbolMap, input.A.symbolMap)

\* B has kept a key that A's map does not have.
C38_ExtraKeyKept ==
  /\ output # NoOutput
  /\ 97 \in MapKeys(output.symbolMap)
  /\ 97 \notin MapKeys(input.A.symbolMap)

\* With the default map on both sides, B's reverseMap gives '.' for the
\* symbol of '3'.
C38_ReverseMapNotInverse ==
  /\ output # NoOutput
  /\ output.symbolMap = symbolMap
  /\ MapGet(output.symbolMap, DigitCode(3)) = 8976
  /\ output.reverseMap[8976] = Period

\* The round trip has gone through: injective maps with the same keys and
\* a rotationKey of A that is not 0.
C38_RoundTripHolds ==
  /\ output # NoOutput
  /\ input.B.rotationKey = 0 /\ input.A.rotationKey = 7
  /\ input.B.securityLevel = 3 /\ input.A.securityLevel = 1
  /\ input.B.symbolMap = symbolMap /\ input.A.symbolMap = InjectiveMap
  /\ output = [input.A EXCEPT !.reverseMap = ReverseMapOf(InjectiveMap)]

====
